---- MODULE Spec2Model ----
(***************************************************************************)
(* A model of pyxs 0.4: the Router (request/response multiplexer and watch *)
(* demultiplexer), the RVar response cell, the Client with its transaction *)
(* id and the Monitor with its event queue, over a connection to the       *)
(* XenStore daemon.  Caller threads, the reader thread and the daemon are  *)
(* interleaved at the granularity at which they touch shared state.        *)
(***************************************************************************)
EXTENDS Integers, Sequences, FiniteSets, TLC

(* ------------------------------ bounds --------------------------------- *)

\* Caller threads that may run concurrently through one router.
NThreads == 2
\* API calls the concurrent caller threads make, together, in one behaviour.
MaxCalls == 3
\* API calls of the single caller of the sequential specifications.
MaxSeqCalls == 4
\* API calls of the single caller that passes arguments of every kind.
MaxValidCalls == 3
\* Calls of the thread that uses a connection without a router.
MaxConnCalls == 4
\* API calls of the single caller that closes its monitor.
MaxCloseCalls == 4
\* API calls and watch events when the order of the events is followed.
MaxOrderCalls == 4
MaxOrderEvents == 3
\* Walks of the single caller that walks the store.
MaxWalkCalls == 3
\* Packets made by the single caller that makes packets.
MaxPacketCalls == 2
\* Calls of the two threads at the two ends of a byte stream.
MaxCodecCalls == 4
\* Calls of validate_path.
MaxPathCalls == 2
\* Calls of the caller whose request ids wrap.
MaxWrapCalls == 4
\* Calls of the two callers whose requests may share an rq_id.
MaxCellCalls == 3
\* Calls of the caller whose reader thread ends, and packets nobody asked for.
MaxReaderCalls == 3
MaxStrays == 1
MaxEventCalls == 3
MaxSubCalls == 4
MaxRecordCalls == 4
MaxRollbackCalls == 3
MaxSharedCalls == 4
\* API calls of the single caller whose peer may break the protocol.
MaxReplyCalls == 3
\* API calls of the single caller that uses a client as a context manager.
MaxExitCalls == 3
\* API calls of the single caller that sets watches on two monitors.
MaxFanoutCalls == 3
\* API calls of the single caller that waits for the events of a monitor.
MaxWaitCalls == 3
\* WATCH_EVENT packets the daemon emits while every decision of the filter
\* of wait() is checked.
MaxWaitEvents == 1
\* WATCH_EVENT packets the daemon emits in one behaviour.
MaxEvents == 2
\* Transaction ids the daemon hands out: 1..MaxTxId.
MaxTxId == 2

(* --------------------------- bytes and paths --------------------------- *)

NUL == "NUL"

OK == <<"O", "K">>
EAGAIN == <<"E", "A", "G", "A", "I", "N">>
ENOENT == <<"E", "N", "O", "E", "N", "T">>
EINVAL == <<"E", "I", "N", "V", "A", "L">>
EALREADY == <<"E", "A", "L", "R", "E", "A", "D", "Y">>

Digits == <<"0", "1", "2", "3", "4", "5", "6", "7", "8", "9">>

\* bytes.rstrip(NUL): every trailing NUL is removed.
RECURSIVE RStrip(_)
RStrip(s) ==
    IF s # <<>> /\ s[Len(s)] = NUL THEN RStrip(SubSeq(s, 1, Len(s) - 1)) ELSE s

\* payload[:-1]
DropLast(s) == IF s = <<>> THEN <<>> ELSE SubSeq(s, 1, Len(s) - 1)

\* bytes.split(NUL)
RECURSIVE Split(_)
Split(s) ==
    IF \A i \in 1..Len(s) : s[i] # NUL
    THEN <<s>>
    ELSE LET i == CHOOSE k \in 1..Len(s) :
                      s[k] = NUL /\ \A j \in 1..(k - 1) : s[j] # NUL
         IN  <<SubSeq(s, 1, i - 1)>> \o Split(SubSeq(s, i + 1, Len(s)))

\* bytes.rstrip(b"/")
RECURSIVE RStripSlash(_)
RStripSlash(s) ==
    IF s # <<>> /\ s[Len(s)] = "/" THEN RStripSlash(SubSeq(s, 1, Len(s) - 1))
    ELSE s

\* posixpath.dirname: the head up to the last slash, trailing slashes removed
\* unless the head consists of slashes only.
dirname(p) ==
    LET slashes == {k \in 1..Len(p) : p[k] = "/"}
        i == IF slashes = {} THEN 0
             ELSE CHOOSE k \in slashes : \A j \in slashes : j <= k
        head == SubSeq(p, 1, i)
    IN  IF head # <<>> /\ \E k \in 1..Len(head) : head[k] # "/"
        THEN RStripSlash(head)
        ELSE head

\* str(n).encode() for the small non-negative numbers of the model.
RECURSIVE Str(_)
Str(n) == IF n < 10 THEN <<Digits[n + 1]>>
          ELSE Str(n \div 10) \o <<Digits[(n % 10) + 1]>>

IsDigit(b) == \E d \in 1..10 : Digits[d] = b
DigitVal(b) == (CHOOSE d \in 1..10 : Digits[d] = b) - 1

\* int(payload) accepts decimal digits; anything else raises ValueError.
IsInt(s) == s # <<>> /\ \A i \in 1..Len(s) : IsDigit(s[i])
RECURSIVE int(_)
int(s) == IF Len(s) = 1 THEN DigitVal(s[1])
          ELSE 10 * int(SubSeq(s, 1, Len(s) - 1)) + DigitVal(s[Len(s)])

(* ----------------------------- validators ----------------------------- *)

\* The bytes a path may consist of: ASCII alphanumerics and - / _ @.
PathBytes ==
    {"a", "b", "c", "d", "e", "f", "g", "h", "i", "j", "k", "l", "m",
     "n", "o", "p", "q", "r", "s", "t", "u", "v", "w", "x", "y", "z",
     "A", "B", "C", "D", "E", "F", "G", "H", "I", "J", "K", "L", "M",
     "N", "O", "P", "Q", "R", "S", "T", "U", "V", "W", "X", "Y", "Z",
     "0", "1", "2", "3", "4", "5", "6", "7", "8", "9",
     "-", "/", "_", "@"}

IntroduceDomain ==
    <<"@", "i", "n", "t", "r", "o", "d",
      "u", "c", "e", "D", "o", "m", "a", "i", "n">>
ReleaseDomain ==
    <<"@", "r", "e", "l", "e", "a",
      "s", "e", "D", "o", "m", "a", "i", "n">>

\* check_path: TRUE when the path is accepted. Absolute paths hold at most
\* 3072 bytes and relative ones 2048; no //, no trailing / but for the root.
check_path(path) ==
    /\ path # <<>>
    /\ \A i \in 1..Len(path) : path[i] \in PathBytes
    /\ Len(path) <= (IF path[1] = "/" THEN 3072 ELSE 2048)
    /\ ~(Len(path) > 1 /\ path[Len(path)] = "/")
    /\ \A i \in 1..(Len(path) - 1) : ~(path[i] = "/" /\ path[i + 1] = "/")

\* check_watch_path: a path, or one of the two special watch paths.
check_watch_path(wpath) ==
    IF wpath # <<>> /\ wpath[1] = "@"
    THEN wpath \in {IntroduceDomain, ReleaseDomain}
    ELSE check_path(wpath)

\* check_perms: every permission is one of w r b n followed by a domain id.
check_perms(perms) ==
    \A k \in 1..Len(perms) :
        /\ Len(perms[k]) >= 2
        /\ perms[k][1] \in {"w", "r", "b", "n"}
        /\ \A i \in 2..Len(perms[k]) : IsDigit(perms[k][i])

(* ------------------------------ packets -------------------------------- *)

OpDEBUG == 0
OpREAD == 2
OpWATCH == 4
OpUNWATCH == 5
OpTRANSACTION_START == 6
OpTRANSACTION_END == 7
OpSET_PERMS == 14
OpWATCH_EVENT == 15
OpERROR == 16

\* sys.maxsize of a 32-bit build.
maxsize == 2147483647

\* Packet.__new__: tx_id defaults to 0, size is len(payload).
Packet(op, payload, rq_id, tx) ==
    [op |-> op, rq_id |-> rq_id, tx_id |-> tx, size |-> Len(payload),
     payload |-> payload]

\* The values of the Op namedtuple.
Ops == (0..19) \cup {128}

\* The payload limit of Packet.__new__.
MaxPayload == 4096

\* Event(path, token)
Event(path, token) == [path |-> path, token |-> token]

\* helpers.error: a PyXSError whose args[0] is the errno named by the payload.
error(name) == [type |-> "PyXSError", errno |-> name]

Exc(type) == [type |-> type, errno |-> <<>>]

\* How a call ends.
Return(val) == [kind |-> "return", val |-> val, exc |-> Exc("none")]
Raise(exc) == [kind |-> "raise", val |-> <<>>, exc |-> exc]

\* A Packet.__new__ that also refuses a payload of exactly 4096 bytes.
PacketNewStrict(op, payload, rq_id, tx) ==
    IF Len(payload) >= MaxPayload THEN Raise(Exc("InvalidPayload"))
    ELSE IF op \notin Ops THEN Raise(Exc("InvalidOperation"))
    ELSE Return(Packet(op, payload, rq_id, IF tx = <<>> THEN 0 ELSE tx[1]))

\* Packet.__new__(op, payload, rq_id, tx_id=None) with its two checks; tx is
\* <<>> for None and <<n>> for the number n (`tx_id or 0`).
PacketNew(op, payload, rq_id, tx) ==
    IF Len(payload) > MaxPayload THEN Raise(Exc("InvalidPayload"))
    ELSE IF op \notin Ops THEN Raise(Exc("InvalidOperation"))
    ELSE Return(Packet(op, payload, rq_id, IF tx = <<>> THEN 0 ELSE tx[1]))

(* --------------------------- model universe ---------------------------- *)

Threads == 1..NThreads
Clients == 1..2
Monitors == 1..2
\* Monitor m holds its own copy of the client (copy.copy in Client.monitor).
MonitorClient(m) == 2 + m
\* Every concurrent caller thread works through a client of its own.
OwnClient(t) == 4 + t
AllClients == 1..(4 + NThreads)

Tok1 == <<"x">>
Tok2 == <<"y">>
Tokens == {Tok1, Tok2}

Root == <<"/">>
PathA == <<"/", "a">>
PathAB == <<"/", "a", "/", "b">>
PathAx == <<"/", "a", "b">>
RelA == <<"a">>
RelAB == <<"a", "/", "b">>

WatchPaths == {PathA, RelA}
EventPaths == {PathA, PathAB, PathAx, RelAB}
\* Arguments the validators reject, and one only check_path accepts.
Percent == <<"a", "%">>
TrailingSlash == <<"/", "a", "/">>
AtArbitrary == <<"@", "x">>
GoodPerms == <<<<"r", "0">>, <<"b", "1", "2">>>>
BadPerms == <<<<"r", "0">>, <<"x", "1">>>>
CheckedPaths == {PathA, AtArbitrary, Percent, TrailingSlash}
CheckedWatchPaths == {PathA, IntroduceDomain, AtArbitrary, Percent}
ReadPaths == {PathA}
Value == <<"v">>

NoTag == <<0, 0>>

(* ------------------------------- state --------------------------------- *)

VARIABLES
    ctype,          \* class of Router.connection: "unix" or "xenbus"
    transport,      \* PacketConnection.transport: "none" or "open"
    peer,           \* the daemon's end of the connection: "up" or "reset"
    wire,           \* what the transport has written, in order
    inbox,          \* packets the daemon has sent and the reader has not read
    thread,         \* Router.thread: "new", "alive" or "dead"
    rpc,            \* where the reader thread is in Router.__call__
    rev,            \* the reader's local: event being fanned out
    ridx,           \* the reader's local: position of the list iterator
    rexc,           \* what ended the reader's loop
    term_bytes,     \* bytes written to w_terminator and not read
    r_terminator,   \* "open" or "closed"
    w_terminator,   \* "open" or "closed"
    send_lock,      \* 0, or the thread holding Router.send_lock
    rvars,          \* Router.rvars: rq_id -> response cell
    monitors,       \* Router.monitors: token -> list of monitors
    _rq_id,         \* the module-level request id counter
    tx_id,          \* Client.tx_id of every client
    events,         \* Monitor.events of every monitor
    unwatch_queue,  \* Monitor.unwatch_queue of every monitor
    pc,             \* where every caller thread is
    call,           \* the API call a caller thread is running
    loc,            \* a caller thread's locals
    ret,            \* how a caller thread's last API call ended
    ncalls,         \* API calls a caller thread has started
    nevents         \* WATCH_EVENT packets the daemon has emitted

vars == <<ctype, transport, peer, wire, inbox, thread, rpc, rev, ridx, rexc,
          term_bytes, r_terminator, w_terminator, send_lock, rvars, monitors,
          _rq_id, tx_id, events, unwatch_queue, pc, call, loc, ret, ncalls,
          nevents>>

connVars == <<ctype, transport, peer, wire, inbox>>
readerVars == <<thread, rpc, rev, ridx, rexc>>
termVars == <<term_bytes, r_terminator, w_terminator>>
routerVars == <<send_lock, rvars, monitors>>
clientVars == <<tx_id, events, unwatch_queue>>
callerVars == <<pc, call, loc, ret, ncalls>>

NoEvent == Event(<<>>, <<>>)
NoPacket == Packet(OpDEBUG, <<>>, 0, 0)

NoCall == [api |-> "none", c |-> 0, m |-> 0, op |-> OpDEBUG, args |-> <<>>,
           unwatched |-> FALSE, exc_info |-> FALSE,
           wpath |-> <<>>, token |-> <<>>, todo |-> {}, topdown |-> TRUE]

\* tmp: the value next_rq_id holds between its loads and stores; rq, tx: the
\* kwargs of execute_command; tag: the RVar made by Router.send; target: the
\* RVar's target (<<>> is None); from: whose request the daemon was answering
\* with the packet in target; wpath, event: the locals of Monitor.wait.
NoLoc == [tmp |-> 0, rq |-> 0, tx |-> 0, tag |-> NoTag, target |-> <<>>,
          from |-> NoTag, sent |-> NoPacket, wpath |-> <<>>, event |-> NoEvent]

NoRet == [api |-> "none", kind |-> "none", val |-> <<>>, exc |-> Exc("none"),
          event |-> NoEvent,
          c |-> 0, m |-> 0, tag |-> NoTag]

\* Router.__init__, Client.__init__ and Monitor.__init__ in a process whose
\* request counter holds id.
Constructed(id) ==
    /\ ctype \in {"unix", "xenbus"}
    /\ transport = "none"
    /\ peer = "up"
    /\ wire = <<>>
    /\ inbox = <<>>
    /\ thread = "new"
    /\ rpc = "loop"
    /\ rev = NoEvent
    /\ ridx = 0
    /\ rexc = "none"
    /\ term_bytes = 0
    /\ r_terminator = "open"
    /\ w_terminator = "open"
    /\ send_lock = 0
    /\ rvars = <<>>
    /\ monitors = <<>>
    /\ _rq_id = id
    /\ tx_id = [c \in AllClients |-> 0]
    /\ events = [m \in Monitors |-> <<>>]
    /\ unwatch_queue = [m \in Monitors |-> {}]
    /\ pc = [t \in Threads |-> "idle"]
    /\ call = [t \in Threads |-> NoCall]
    /\ loc = [t \in Threads |-> NoLoc]
    /\ ret = [t \in Threads |-> NoRet]
    /\ ncalls = [t \in Threads |-> 0]
    /\ nevents = 0

\* Construction in a fresh process: the module global _rq_id is -1.
Init == Constructed(-1)

\* PacketConnection.is_connected
is_connected == transport # "none"

\* dict assignment d[k] = v
Put(d, k, v) == [x \in DOMAIN d \cup {k} |-> IF x = k THEN v ELSE d[x]]

\* dict.get(k): the key stays.
Kept(d, k) == d

\* dict.pop(k)
Del(d, k) == [x \in DOMAIN d \ {k} |-> d[x]]

\* defaultdict(list).__getitem__: a missing key is inserted with an empty list.
Touch(d, k) == IF k \in DOMAIN d THEN d ELSE Put(d, k, <<>>)

\* list.remove(x): the first occurrence is removed.
Remove(lst, x) ==
    LET i == CHOOSE k \in 1..Len(lst) :
                 lst[k] = x /\ \A j \in 1..(k - 1) : lst[j] # x
    IN  SubSeq(lst, 1, i - 1) \o SubSeq(lst, i + 1, Len(lst))

Contains(lst, x) == \E k \in 1..Len(lst) : lst[k] = x

(* --------------------------- the reader thread -------------------------- *)

\* RVar.set on the cell made for request `tag`: the caller that still holds
\* this cell sees the target; a cell nobody holds any more is garbage.
RVarSet(tag, packet, from) ==
    IF loc[tag[1]].tag = tag
    THEN [loc EXCEPT ![tag[1]].target = <<packet>>, ![tag[1]].from = from]
    ELSE loc

\* Router.__call__, entering select.select: the arguments are turned into
\* descriptors first, and a connection without a transport has no fileno().
ReaderLoop ==
    /\ thread = "alive" /\ rpc = "loop"
    /\ IF is_connected
       THEN rpc' = "select" /\ rexc' = rexc
       ELSE rpc' = "finally" /\ rexc' = "AttributeError"
    /\ UNCHANGED <<connVars, thread, rev, ridx, termVars, routerVars, _rq_id,
                   clientVars, callerVars, nevents>>

\* select.select returns: the terminator wins over the connection.
ReaderSelect ==
    /\ thread = "alive" /\ rpc = "select"
    /\ \/ /\ term_bytes > 0
          /\ rpc' = "finally" /\ rexc' = "break"
       \/ /\ term_bytes = 0
          /\ is_connected /\ (inbox # <<>> \/ peer = "reset")
          /\ rpc' = "recv" /\ rexc' = rexc
    /\ UNCHANGED <<connVars, thread, rev, ridx, termVars, routerVars, _rq_id,
                   clientVars, callerVars, nevents>>

\* A sender closed the transport while the reader was blocked in select: the
\* shutdown() of a stream socket wakes the select, the os.close() of the
\* XenBus device does not.
ReaderSelectClosed ==
    /\ thread = "alive" /\ rpc = "select"
    /\ term_bytes = 0 /\ ~is_connected /\ ctype = "unix"
    /\ rpc' = "recv"
    /\ UNCHANGED <<connVars, thread, rev, ridx, rexc, termVars, routerVars,
                   _rq_id, clientVars, callerVars, nevents>>

\* connection.recv() and the dispatch of the packet it returns.
ReaderRecv ==
    /\ thread = "alive" /\ rpc = "recv"
    /\ IF ~is_connected
       THEN \* PacketConnection.recv: raise ConnectionError("not connected")
            /\ rpc' = "finally" /\ rexc' = "ConnectionError"
            /\ UNCHANGED <<transport, inbox, rev, ridx, rvars, monitors, loc>>
       ELSE IF inbox = <<>>
       THEN \* a read of zero bytes is ECONNRESET: close() and ConnectionError
            /\ transport' = "none"
            /\ rpc' = "finally" /\ rexc' = "ConnectionError"
            /\ UNCHANGED <<inbox, rev, ridx, rvars, monitors, loc>>
       ELSE LET packet == Head(inbox).pkt
                from == Head(inbox).from
                parts == DropLast(Split(packet.payload))
                made == PacketNew(packet.op, packet.payload, packet.rq_id,
                                  <<packet.tx_id>>)
            IN  /\ inbox' = Tail(inbox)
                /\ transport' = transport
                /\ IF made.kind = "raise"
                   THEN \* Packet(op, payload, rq_id, tx_id) in recv() raises
                        /\ rpc' = "finally" /\ rexc' = made.exc.type
                        /\ UNCHANGED <<rev, ridx, rvars, monitors, loc>>
                   ELSE IF packet.op = OpWATCH_EVENT
                   THEN IF Len(parts) = 2
                        THEN /\ rev' = Event(parts[1], parts[2])
                             /\ ridx' = 1
                             /\ monitors' = Touch(monitors, parts[2])
                             /\ rpc' = "fanout" /\ rexc' = rexc
                             /\ UNCHANGED <<rvars, loc>>
                        ELSE \* Event(*args) with the wrong number of fields
                             /\ rpc' = "finally" /\ rexc' = "TypeError"
                             /\ UNCHANGED <<rev, ridx, rvars, monitors, loc>>
                   ELSE IF packet.rq_id \in DOMAIN rvars
                        THEN /\ rvars' = Del(rvars, packet.rq_id)
                             /\ loc' = RVarSet(rvars[packet.rq_id], packet, from)
                             /\ rpc' = "loop" /\ rexc' = rexc
                             /\ UNCHANGED <<rev, ridx, monitors>>
                        ELSE /\ rpc' = "finally" /\ rexc' = "UnexpectedPacket"
                             /\ UNCHANGED <<rev, ridx, rvars, monitors, loc>>
    /\ UNCHANGED <<ctype, peer, wire, thread, termVars, send_lock, _rq_id,
                   clientVars, pc, call, ret, ncalls, nevents>>

\* One round of `for monitor in self.monitors[event.token]`: the list
\* iterator yields the element at its position, if there is one.
ReaderFanout ==
    /\ thread = "alive" /\ rpc = "fanout"
    /\ LET lst == monitors[rev.token]
       IN  IF ridx <= Len(lst)
           THEN /\ events' = [events EXCEPT ![lst[ridx]] = Append(@, rev)]
                /\ ridx' = ridx + 1
                /\ rpc' = rpc
           ELSE /\ rpc' = "loop"
                /\ UNCHANGED <<events, ridx>>
    /\ UNCHANGED <<connVars, thread, rev, rexc, termVars, routerVars, _rq_id,
                   tx_id, unwatch_queue, callerVars, nevents>>

\* finally: self.connection.close() looks at is_connected first ...
ReaderFinally ==
    /\ thread = "alive" /\ rpc = "finally"
    /\ rpc' = IF is_connected THEN "closing" ELSE "finally2"
    /\ UNCHANGED <<connVars, thread, rev, ridx, rexc, termVars, routerVars,
                   _rq_id, clientVars, callerVars, nevents>>

\* ... and then calls self.transport.close() and sets self.transport to
\* None. When a sender has closed the connection in between, self.transport
\* is None: the AttributeError is not an OSError, it leaves close() and the
\* finally clause of the reader, and the terminator pair stays open.
ReaderClose ==
    /\ thread = "alive" /\ rpc = "closing"
    /\ IF is_connected
       THEN /\ transport' = "none"
            /\ rpc' = "finally2"
            /\ UNCHANGED <<thread, rexc>>
       ELSE /\ thread' = "dead"
            /\ rpc' = "done" /\ rexc' = "AttributeError"
            /\ UNCHANGED transport
    /\ UNCHANGED <<ctype, peer, wire, inbox, rev, ridx, termVars,
                   routerVars, _rq_id, clientVars, callerVars, nevents>>

\* finally: both ends of the terminator pair are closed and the thread ends.
ReaderExit ==
    /\ thread = "alive" /\ rpc = "finally2"
    /\ r_terminator' = "closed"
    /\ w_terminator' = "closed"
    /\ thread' = "dead"
    /\ rpc' = "done"
    /\ UNCHANGED <<connVars, rev, ridx, rexc, term_bytes, routerVars, _rq_id,
                   clientVars, callerVars, nevents>>

Reader ==
    \/ ReaderLoop \/ ReaderSelect \/ ReaderSelectClosed \/ ReaderRecv
    \/ ReaderFanout \/ ReaderFinally \/ ReaderClose \/ ReaderExit

(* ------------------------------ the daemon ------------------------------ *)

\* What xenstored may answer to a request: it echoes rq_id and tx_id.
ErrorReply(rq, name) == Packet(OpERROR, name \o <<NUL>>, rq.rq_id, rq.tx_id)
AckReply(rq) == Packet(rq.op, OK \o <<NUL>>, rq.rq_id, rq.tx_id)

Replies(rq) ==
    IF rq.op = OpREAD
    THEN {Packet(OpREAD, Value, rq.rq_id, rq.tx_id), ErrorReply(rq, ENOENT)}
    ELSE IF rq.op = OpTRANSACTION_START
    THEN {Packet(rq.op, Str(n) \o <<NUL>>, rq.rq_id, rq.tx_id) : n \in 1..MaxTxId}
    ELSE IF rq.op = OpTRANSACTION_END
    THEN {AckReply(rq), ErrorReply(rq, EAGAIN), ErrorReply(rq, EINVAL)}
    ELSE {AckReply(rq), ErrorReply(rq, EINVAL)}

\* The daemon answers a request it has received whole, in any order.
DaemonReply ==
    /\ is_connected /\ peer = "up"
    /\ \E i \in 1..(Len(wire) - 1) :
         /\ wire[i].kind = "header" /\ wire[i + 1].kind = "payload"
         /\ \E reply \in Replies(wire[i].pkt) :
              inbox' = Append(inbox, [pkt |-> reply, from |-> wire[i].tag])
         /\ wire' = SubSeq(wire, 1, i - 1) \o SubSeq(wire, i + 2, Len(wire))
    /\ UNCHANGED <<ctype, transport, peer, readerVars, termVars, routerVars,
                   _rq_id, clientVars, callerVars, nevents>>

\* The daemon accepts a request it has received whole.
DaemonAck ==
    /\ is_connected /\ peer = "up"
    /\ \E i \in 1..(Len(wire) - 1) :
         /\ wire[i].kind = "header" /\ wire[i + 1].kind = "payload"
         /\ inbox' = Append(inbox, [pkt |-> AckReply(wire[i].pkt),
                                    from |-> wire[i].tag])
         /\ wire' = SubSeq(wire, 1, i - 1) \o SubSeq(wire, i + 2, Len(wire))
    /\ UNCHANGED <<ctype, transport, peer, readerVars, termVars, routerVars,
                   _rq_id, clientVars, callerVars, nevents>>

\* What a peer that breaks the protocol may answer: the op is the request's,
\* ERROR or another one, the tx_id is the request's or another one.
Misreplies(rq) ==
    {Packet(op, (IF op = OpERROR THEN ENOENT ELSE Value) \o <<NUL>>,
            rq.rq_id, tx) :
        op \in {rq.op, OpERROR, OpDEBUG}, tx \in {rq.tx_id, rq.tx_id + 1}}

\* Such a peer answers a request it has received whole.
DaemonMisreply ==
    /\ is_connected /\ peer = "up"
    /\ \E i \in 1..(Len(wire) - 1) :
         /\ wire[i].kind = "header" /\ wire[i + 1].kind = "payload"
         /\ \E reply \in Misreplies(wire[i].pkt) :
              inbox' = Append(inbox, [pkt |-> reply, from |-> wire[i].tag])
         /\ wire' = SubSeq(wire, 1, i - 1) \o SubSeq(wire, i + 2, Len(wire))
    /\ UNCHANGED <<ctype, transport, peer, readerVars, termVars, routerVars,
                   _rq_id, clientVars, callerVars, nevents>>

\* What a peer may send that no request asked for: a packet with an op that
\* is not in Op, with a payload over the limit, or with an rq_id nobody sent.
Strays ==
    {[op |-> 127, rq_id |-> 0, tx_id |-> 0, size |-> 1, payload |-> <<"x">>],
     [op |-> OpREAD, rq_id |-> 0, tx_id |-> 0, size |-> MaxPayload + 1,
      payload |-> [i \in 1..(MaxPayload + 1) |-> "x"]],
     Packet(OpREAD, <<"x">>, maxsize, 0)}

\* Such a peer sends one of them.
DaemonStray(max) ==
    /\ is_connected /\ peer = "up"
    /\ nevents < max
    /\ nevents' = nevents + 1
    /\ \E pkt \in Strays : inbox' = Append(inbox, [pkt |-> pkt, from |-> NoTag])
    /\ UNCHANGED <<ctype, transport, peer, wire, readerVars, termVars,
                   routerVars, _rq_id, clientVars, callerVars>>

\* The daemon sends WATCH_EVENT with payload path NUL token NUL.
Emit(path, token, max) ==
    /\ is_connected /\ peer = "up"
    /\ nevents < max
    /\ inbox' = Append(inbox,
                  [pkt |-> Packet(OpWATCH_EVENT,
                                  path \o <<NUL>> \o token \o <<NUL>>, 0, 0),
                   from |-> NoTag])
    /\ nevents' = nevents + 1
    /\ UNCHANGED <<ctype, transport, peer, wire, readerVars, termVars,
                   routerVars, _rq_id, clientVars, callerVars>>

\* An event with any token, known to the router or not.
DaemonEvent ==
    \E path \in EventPaths, token \in Tokens : Emit(path, token, MaxEvents)

\* The daemon fires a watch on one of `paths`: the token is one that was
\* given to watch(); the watch may be gone again, and it may fire spuriously.
DaemonWatchEvent(paths, max) ==
    \E path \in paths, token \in Tokens \cap DOMAIN monitors :
        Emit(path, token, max)

\* The daemon goes away: reads return zero bytes, writes fail with EPIPE.
PeerReset ==
    /\ is_connected /\ peer = "up"
    /\ peer' = "reset"
    /\ UNCHANGED <<ctype, transport, wire, inbox, readerVars, termVars,
                   routerVars, _rq_id, clientVars, callerVars, nevents>>

(* --------------------------- the caller threads ------------------------- *)

True == <<"True">>
False == <<"False">>

\* An ack that takes any payload for the acknowledgement.
ackAny(res) == res

\* Client.ack: anything but OK is a PyXSError carrying the payload.
ack(res) ==
    IF res.kind = "return" /\ res.val # OK THEN Raise(Exc("PyXSError")) ELSE res

\* A commit() without the EAGAIN case: every error is raised again.
commitRaising(res) ==
    IF res.kind = "return" THEN Return(True) ELSE res

\* Client.commit: EAGAIN is turned into False, the rest is raised again.
commit(res) ==
    IF res.kind = "return" THEN Return(True)
    ELSE IF res.exc.type = "PyXSError" /\ res.exc.errno = EAGAIN
         THEN Return(False)
         ELSE res

\* Client.transaction, after execute_command: self.tx_id = int(payload).
transaction(res) ==
    IF res.kind = "return" /\ ~IsInt(res.val) THEN Raise(Exc("ValueError"))
    ELSE res

\* Monitor.unwatch, after the ack: list.remove raises ValueError when the
\* monitor is not in the list.
unwatch(res, m, token) ==
    IF res.kind = "return" /\ ~Contains(Touch(monitors, token)[token], m)
    THEN Raise(Exc("ValueError"))
    ELSE res

\* What the API call of thread t makes of the outcome `res` of its
\* execute_command, with the state changes of the call's last statements.
Outcome(t, res) ==
    LET cl == call[t]
    IN  CASE cl.api = "read" -> res
          [] cl.api = "transaction" -> transaction(res)
          [] cl.api = "rollback" -> ack(res)
          [] cl.api = "commit" -> commit(ack(res))
          [] cl.api = "set_perms" -> ack(res)
          [] cl.api = "watch" -> ack(res)
          [] cl.api \in {"unwatch", "monitor_close"} ->
                unwatch(ack(res), cl.m, cl.token)
          [] OTHER -> res

Result(t, res) ==
    [api |-> call[t].api, kind |-> res.kind, val |-> res.val, exc |-> res.exc,
     c |-> call[t].c, m |-> call[t].m, tag |-> loc[t].tag, event |-> NoEvent]

Finish(t, res) ==
    LET cl == call[t]
        out == Outcome(t, res)
    IN  /\ IF cl.api = "monitor_close" /\ out.kind = "return"
           THEN \* Monitor.close goes on with the next record
                pc' = [pc EXCEPT ![t] = "close_next"] /\ ret' = ret
           ELSE /\ ret' = [ret EXCEPT ![t] = Result(t, out)]
                /\ pc' = [pc EXCEPT ![t] = "idle"]
        /\ tx_id' =
             IF cl.api = "transaction" /\ out.kind = "return"
             THEN [tx_id EXCEPT ![cl.c] = int(out.val)]
             ELSE IF cl.api = "rollback" /\ out.kind = "return"
             THEN [tx_id EXCEPT ![cl.c] = 0]
             ELSE IF cl.api = "commit"
             THEN [tx_id EXCEPT ![cl.c] = 0]
             ELSE tx_id
        /\ unwatch_queue' =
             IF cl.api = "watch" /\ out.kind = "return"
             THEN [unwatch_queue EXCEPT ![cl.m] = @ \cup {<<cl.wpath, cl.token>>}]
             ELSE IF cl.api \in {"unwatch", "monitor_close"}
                     /\ out.kind = "return"
             THEN [unwatch_queue EXCEPT ![cl.m] = @ \ {<<cl.wpath, cl.token>>}]
             ELSE unwatch_queue
        /\ monitors' =
             IF cl.api \in {"unwatch", "monitor_close"}
                /\ ack(res).kind = "return"
             THEN IF out.kind = "return"
                  THEN [monitors EXCEPT ![cl.token] = Remove(@, cl.m)]
                  ELSE Touch(monitors, cl.token)
             ELSE monitors

\* An execute_command that looks at op and tx_id before it looks for ERROR.
InterpretMismatchFirst(t, packet) ==
    IF packet.op # call[t].op \/ packet.tx_id # tx_id[call[t].c]
    THEN Raise(Exc("UnexpectedPacket"))
    ELSE IF packet.op = OpERROR
    THEN Raise(error(DropLast(packet.payload)))
    ELSE Return(RStrip(packet.payload))

\* Client.execute_command: the response packet is interpreted.
Interpret(t, packet) ==
    IF packet.op = OpERROR
    THEN Raise(error(DropLast(packet.payload)))
    ELSE IF packet.op # call[t].op \/ packet.tx_id # tx_id[call[t].c]
    THEN Raise(Exc("UnexpectedPacket"))
    ELSE Return(RStrip(packet.payload))

RECURSIVE Sum(_, _)
Sum(f, n) == IF n = 0 THEN 0 ELSE f[n] + Sum(f, n - 1)

\* A caller thread starts an API call.
Begin(t, cl, first, max) ==
    /\ pc[t] = "idle"
    /\ Sum(ncalls, NThreads) < max
    /\ ncalls' = [ncalls EXCEPT ![t] = @ + 1]
    /\ call' = [call EXCEPT ![t] = cl]
    /\ loc' = [loc EXCEPT ![t] = [NoLoc EXCEPT !.tx = tx_id[cl.c]]]
    /\ pc' = [pc EXCEPT ![t] = first]

\* next_rq_id: `_rq_id += 1` loads the global ...
NextRqIdLoad1(t) ==
    /\ pc[t] = "rq_load1"
    /\ loc' = [loc EXCEPT ![t].tmp = _rq_id]
    /\ pc' = [pc EXCEPT ![t] = "rq_store1"]
    /\ UNCHANGED <<connVars, readerVars, termVars, routerVars, _rq_id,
                   clientVars, call, ret, ncalls, nevents>>

\* ... and stores the sum;
NextRqIdStore1(t) ==
    /\ pc[t] = "rq_store1"
    /\ _rq_id' = loc[t].tmp + 1
    /\ pc' = [pc EXCEPT ![t] = "rq_load2"]
    /\ UNCHANGED <<connVars, readerVars, termVars, routerVars, clientVars,
                   call, loc, ret, ncalls, nevents>>

\* `_rq_id %= sys.maxsize` loads the global ...
NextRqIdLoad2(t) ==
    /\ pc[t] = "rq_load2"
    /\ loc' = [loc EXCEPT ![t].tmp = _rq_id]
    /\ pc' = [pc EXCEPT ![t] = "rq_store2"]
    /\ UNCHANGED <<connVars, readerVars, termVars, routerVars, _rq_id,
                   clientVars, call, ret, ncalls, nevents>>

\* ... and stores the remainder;
NextRqIdStore2(t) ==
    /\ pc[t] = "rq_store2"
    /\ _rq_id' = loc[t].tmp % maxsize
    /\ pc' = [pc EXCEPT ![t] = "rq_return"]
    /\ UNCHANGED <<connVars, readerVars, termVars, routerVars, clientVars,
                   call, loc, ret, ncalls, nevents>>

\* An execute_command that leaves the packet's tx_id at its default.
RequestNoTx(t, rq) == Packet(call[t].op, call[t].args, rq, 0)

\* execute_command: Packet(op, b"".join(args), tx_id=self.tx_id, rq_id=...)
Request(t, rq) == Packet(call[t].op, call[t].args, rq, loc[t].tx)

\* `return _rq_id` loads the global once more; execute_command builds the
\* packet from it and the tx_id it read.
NextRqIdReturn(t) ==
    /\ pc[t] = "rq_return"
    /\ loc' = [loc EXCEPT ![t].rq = _rq_id, ![t].tmp = 0,
                          ![t].sent = Request(t, _rq_id)]
    /\ pc' = [pc EXCEPT ![t] = "send"]
    /\ UNCHANGED <<connVars, readerVars, termVars, routerVars, _rq_id,
                   clientVars, call, ret, ncalls, nevents>>

\* Router.send: the lock is taken and the new RVar is registered.
RouterSend(t) ==
    /\ pc[t] = "send"
    /\ send_lock = 0
    /\ send_lock' = t
    /\ rvars' = Put(rvars, loc[t].sent.rq_id, <<t, ncalls[t]>>)
    /\ loc' = [loc EXCEPT ![t].tag = <<t, ncalls[t]>>]
    /\ pc' = [pc EXCEPT ![t] = "write_header"]
    /\ UNCHANGED <<connVars, readerVars, termVars, monitors, _rq_id,
                   clientVars, call, ret, ncalls, nevents>>

\* PacketConnection.send writes one part of the packet; a failure leaves
\* Router.send (releasing the lock) and execute_command.
Write(t, kind, next) ==
    /\ send_lock = t
    /\ IF ~is_connected
       THEN \* the header: raise ConnectionError("not connected"); the
            \* payload: self.transport is None by now, AttributeError
            /\ Finish(t, Raise(Exc(IF kind = "header" THEN "ConnectionError"
                                                      ELSE "AttributeError")))
            /\ send_lock' = 0
            /\ UNCHANGED <<transport, wire>>
       ELSE IF peer = "reset"
       THEN \* EPIPE: self.close(), then ConnectionError
            /\ Finish(t, Raise(Exc("ConnectionError")))
            /\ send_lock' = 0
            /\ transport' = "none"
            /\ UNCHANGED wire
       ELSE /\ wire' = Append(wire, [kind |-> kind, pkt |-> loc[t].sent,
                                     tag |-> loc[t].tag])
            /\ pc' = [pc EXCEPT ![t] = next]
            /\ send_lock' = IF next = "get" THEN 0 ELSE t
            /\ UNCHANGED <<transport, ret, tx_id, unwatch_queue, monitors>>
    /\ UNCHANGED <<ctype, peer, inbox, readerVars, termVars, rvars, _rq_id,
                   events, call, loc, ncalls, nevents>>

\* self.transport.send(header)
WriteHeader(t) == pc[t] = "write_header" /\ Write(t, "header", "write_payload")

\* self.transport.send(packet.payload), and the lock is released.
WritePayload(t) == pc[t] = "write_payload" /\ Write(t, "payload", "get")

\* RVar.get returns once the target is set; execute_command interprets it.
RVarGet(t) ==
    /\ pc[t] = "get"
    /\ loc[t].target # <<>>
    /\ Finish(t, Interpret(t, loc[t].target[1]))
    /\ UNCHANGED <<connVars, readerVars, termVars, send_lock, rvars, _rq_id,
                   events, call, loc, ncalls, nevents>>

Execute(t) ==
    \/ NextRqIdLoad1(t) \/ NextRqIdStore1(t) \/ NextRqIdLoad2(t)
    \/ NextRqIdStore2(t) \/ NextRqIdReturn(t)
    \/ RouterSend(t) \/ WriteHeader(t) \/ WritePayload(t) \/ RVarGet(t)

ApiUnchanged ==
    UNCHANGED <<connVars, readerVars, termVars, routerVars, _rq_id,
                clientVars, ret, nevents>>

Command(api, c, m, op, args) ==
    [api |-> api, c |-> c, m |-> m, op |-> op, args |-> args,
     wpath |-> <<>>, token |-> <<>>, unwatched |-> FALSE,
     exc_info |-> FALSE, todo |-> {}, topdown |-> TRUE]

\* A validator raises: the call ends where it began.
Reject(t, cl, exc, max) ==
    /\ pc[t] = "idle"
    /\ Sum(ncalls, NThreads) < max
    /\ ncalls' = [ncalls EXCEPT ![t] = @ + 1]
    /\ call' = [call EXCEPT ![t] = cl]
    /\ loc' = [loc EXCEPT ![t] = NoLoc]
    /\ ret' = [ret EXCEPT ![t] = [NoRet EXCEPT !.api = cl.api, !.kind = "raise",
                                               !.exc = exc, !.c = cl.c,
                                               !.m = cl.m]]
    /\ UNCHANGED <<pc, connVars, readerVars, termVars, routerVars, _rq_id,
                   clientVars, nevents>>

\* Client.read(path)
CallRead(t, c, path, max) ==
    LET cl == [Command("read", c, 0, OpREAD, path \o <<NUL>>)
               EXCEPT !.wpath = path]
    IN  IF check_path(path)
        THEN Begin(t, cl, "rq_load1", max) /\ ApiUnchanged
        ELSE Reject(t, cl, Exc("InvalidPath"), max)

\* The SET_PERMS payload: path NUL, then every permission with its NUL.
RECURSIVE Joined(_)
Joined(perms) ==
    IF perms = <<>> THEN <<>> ELSE Head(perms) \o <<NUL>> \o Joined(Tail(perms))

\* Client.set_perms(path, perms)
CallSetPerms(t, c, path, perms, max) ==
    LET cl == [Command("set_perms", c, 0, OpSET_PERMS,
                       path \o <<NUL>> \o Joined(perms))
               EXCEPT !.wpath = path]
    IN  IF ~check_path(path) THEN Reject(t, cl, Exc("InvalidPath"), max)
        ELSE IF ~check_perms(perms)
        THEN Reject(t, cl, Exc("InvalidPermission"), max)
        ELSE Begin(t, cl, "rq_load1", max) /\ ApiUnchanged

\* A transaction() without the check of self.tx_id.
CallTransactionUnchecked(t, c, max) ==
    /\ Begin(t, Command("transaction", c, 0, OpTRANSACTION_START, <<NUL>>),
             "rq_load1", max)
    /\ ApiUnchanged

\* Client.transaction(): EALREADY, without a packet, inside a transaction.
CallTransaction(t, c, max) ==
    /\ Begin(t, Command("transaction", c, 0, OpTRANSACTION_START, <<NUL>>),
             IF tx_id[c] # 0 THEN "ealready" ELSE "rq_load1", max)
    /\ ApiUnchanged

\* raise error(errno.EALREADY)
RaiseEalready(t) ==
    /\ pc[t] = "ealready"
    /\ ret' = [ret EXCEPT ![t] = Result(t, Raise(error(EALREADY)))]
    /\ pc' = [pc EXCEPT ![t] = "idle"]
    /\ UNCHANGED <<connVars, readerVars, termVars, routerVars, _rq_id,
                   clientVars, call, loc, ncalls, nevents>>

\* Client.commit()
CallCommit(t, c, max) ==
    /\ Begin(t, Command("commit", c, 0, OpTRANSACTION_END, <<"T", NUL>>),
             "rq_load1", max)
    /\ ApiUnchanged

\* A rollback() that sends the payload of commit().
CallRollbackCommitting(t, c, max) ==
    /\ Begin(t, Command("rollback", c, 0, OpTRANSACTION_END, <<"T", NUL>>),
             "rq_load1", max)
    /\ ApiUnchanged

\* Client.rollback()
CallRollback(t, c, max) ==
    /\ Begin(t, Command("rollback", c, 0, OpTRANSACTION_END, <<"F", NUL>>),
             "rq_load1", max)
    /\ ApiUnchanged

\* A copy that takes the attributes of the client it copies.
copyDict(c) == tx_id[c]

\* Client.__copy__: a new Client on the router of c; __init__ sets its tx_id.
copy(c) == 0

\* d = copy.copy(c)
CallCopy(t, c, d, max) ==
    /\ pc[t] = "idle"
    /\ Sum(ncalls, NThreads) < max
    /\ ncalls' = [ncalls EXCEPT ![t] = @ + 1]
    /\ call' = [call EXCEPT ![t] = Command("copy", d, 0, OpDEBUG, <<>>)]
    /\ tx_id' = [tx_id EXCEPT ![d] = copy(c)]
    /\ ret' = [ret EXCEPT ![t] = [NoRet EXCEPT !.api = "copy",
                                               !.kind = "return", !.c = d]]
    /\ UNCHANGED <<connVars, readerVars, termVars, routerVars, _rq_id, events,
                   unwatch_queue, pc, loc, nevents>>

\* Client.connect() is Router.start()
CallStart(t, c, max) ==
    /\ Begin(t, Command("start", c, 0, OpDEBUG, <<>>), "start_connect", max)
    /\ ApiUnchanged

\* self.connection.connect(): a transport is made unless there is one
\* already; making it fails when the daemon cannot be reached.
StartConnect(t) ==
    /\ pc[t] = "start_connect"
    /\ \/ /\ is_connected
          /\ pc' = [pc EXCEPT ![t] = "start_alive"]
          /\ UNCHANGED <<connVars, ret>>
       \/ /\ ~is_connected
          /\ transport' = "open" /\ peer' = "up"
          /\ wire' = <<>> /\ inbox' = <<>>
          /\ pc' = [pc EXCEPT ![t] = "start_alive"]
          /\ UNCHANGED <<ctype, ret>>
       \/ /\ ~is_connected
          /\ ret' = [ret EXCEPT ![t] = Result(t, Raise(Exc("ConnectionError")))]
          /\ pc' = [pc EXCEPT ![t] = "idle"]
          /\ UNCHANGED connVars
    /\ UNCHANGED <<readerVars, termVars, routerVars, _rq_id, clientVars,
                   call, loc, ncalls, nevents>>

\* if not self.thread.is_alive():
StartAlive(t) ==
    /\ pc[t] = "start_alive"
    /\ pc' = [pc EXCEPT ![t] = IF thread = "alive" THEN "start_wait"
                                                  ELSE "start_thread"]
    /\ UNCHANGED <<connVars, readerVars, termVars, routerVars, _rq_id,
                   clientVars, call, loc, ret, ncalls, nevents>>

\* self.thread.start(): a thread can be started once.
StartThread(t) ==
    /\ pc[t] = "start_thread"
    /\ IF thread = "new"
       THEN /\ thread' = "alive"
            /\ pc' = [pc EXCEPT ![t] = "start_wait"]
            /\ ret' = ret
       ELSE /\ thread' = thread
            /\ ret' = [ret EXCEPT ![t] = Result(t, Raise(Exc("RuntimeError")))]
            /\ pc' = [pc EXCEPT ![t] = "idle"]
    /\ UNCHANGED <<connVars, rpc, rev, ridx, rexc, termVars, routerVars,
                   _rq_id, clientVars, call, loc, ncalls, nevents>>

\* while not self.is_connected: if not self.thread.is_alive(): raise
StartWait(t) ==
    /\ pc[t] = "start_wait"
    /\ is_connected \/ thread # "alive"
    /\ ret' = [ret EXCEPT ![t] =
                 Result(t, IF is_connected THEN Return(<<>>)
                           ELSE Raise(Exc("ConnectionError")))]
    /\ pc' = [pc EXCEPT ![t] = "idle"]
    /\ UNCHANGED <<connVars, readerVars, termVars, routerVars, _rq_id,
                   clientVars, call, loc, ncalls, nevents>>

Start(t) == StartConnect(t) \/ StartAlive(t) \/ StartThread(t) \/ StartWait(t)

\* Client.close() is Router.terminate()
CallClose(t, c, max) ==
    /\ Begin(t, Command("close", c, 0, OpDEBUG, <<>>), "terminate", max)
    /\ ApiUnchanged

\* if self.is_connected:
Terminate(t) ==
    /\ pc[t] = "terminate"
    /\ pc' = [pc EXCEPT ![t] = IF is_connected THEN "sendall" ELSE "join"]
    /\ UNCHANGED <<connVars, readerVars, termVars, routerVars, _rq_id,
                   clientVars, call, loc, ret, ncalls, nevents>>

\* self.w_terminator.sendall(NUL): an OSError on a closed socket.
TerminateSendall(t) ==
    /\ pc[t] = "sendall"
    /\ IF w_terminator = "open"
       THEN /\ term_bytes' = term_bytes + 1
            /\ pc' = [pc EXCEPT ![t] = "join"]
            /\ ret' = ret
       ELSE /\ term_bytes' = term_bytes
            /\ ret' = [ret EXCEPT ![t] = Result(t, Raise(Exc("OSError")))]
            /\ pc' = [pc EXCEPT ![t] = "idle"]
    /\ UNCHANGED <<connVars, readerVars, r_terminator, w_terminator,
                   routerVars, _rq_id, clientVars, call, loc, ncalls, nevents>>

\* if self.thread.is_alive(): self.thread.join()
TerminateJoin(t) ==
    /\ pc[t] = "join"
    /\ thread # "alive"
    /\ IF call[t].api = "exit"
       THEN \* __exit__ goes on after self.close()
            /\ pc' = [pc EXCEPT ![t] = "exit_check"]
            /\ ret' = ret
       ELSE /\ ret' = [ret EXCEPT ![t] = Result(t, Return(<<>>))]
            /\ pc' = [pc EXCEPT ![t] = "idle"]
    /\ UNCHANGED <<connVars, readerVars, termVars, routerVars, _rq_id,
                   clientVars, call, loc, ncalls, nevents>>

Close(t) == Terminate(t) \/ TerminateSendall(t) \/ TerminateJoin(t)

\* PyXSError("uncommitted transaction")
Uncommitted == [type |-> "PyXSError", errno |-> <<"uncommitted transaction">>]

\* The exception that is in flight when a with block is left by a raise.
InFlight == Exc("ValueError")

\* Client.__exit__(*exc_info): self.close() comes first; exc_info tells
\* whether the with block is left by an exception.
CallExit(t, c, exc_info, max) ==
    /\ Begin(t, [Command("exit", c, 0, OpDEBUG, <<>>)
                 EXCEPT !.exc_info = exc_info], "terminate", max)
    /\ ApiUnchanged

\* if self.tx_id and not any(exc_info): raise PyXSError(...) -- otherwise
\* __exit__ returns None and an exception in flight propagates.
ExitCheck(t) ==
    /\ pc[t] = "exit_check"
    /\ ret' = [ret EXCEPT ![t] =
                 Result(t, IF tx_id[call[t].c] # 0 /\ ~call[t].exc_info
                           THEN Raise(Uncommitted)
                           ELSE IF call[t].exc_info THEN Raise(InFlight)
                           ELSE Return(<<>>))]
    /\ pc' = [pc EXCEPT ![t] = "idle"]
    /\ UNCHANGED <<connVars, readerVars, termVars, routerVars, _rq_id,
                   clientVars, call, loc, ncalls, nevents>>

(* ------------------- the connection without a router -------------------- *)

\* connection.connect(), connection.send(packet) or connection.recv() called
\* by the thread that owns the connection.
CallConn(t, api, max) ==
    /\ Begin(t, Command(api, 1, 0, OpREAD, PathA \o <<NUL>>), api, max)
    /\ ApiUnchanged

\* PacketConnection.connect: nothing when connected; else create_transport,
\* which raises ConnectionError when the daemon cannot be reached.
ConnConnect(t) ==
    /\ pc[t] = "conn_connect"
    /\ pc' = [pc EXCEPT ![t] = "idle"]
    /\ \/ /\ is_connected
          /\ ret' = [ret EXCEPT ![t] = Result(t, Return(<<>>))]
          /\ UNCHANGED connVars
       \/ /\ ~is_connected
          /\ transport' = "open" /\ peer' = "up"
          /\ wire' = <<>> /\ inbox' = <<>>
          /\ ret' = [ret EXCEPT ![t] = Result(t, Return(<<>>))]
          /\ UNCHANGED ctype
       \/ /\ ~is_connected
          /\ ret' = [ret EXCEPT ![t] = Result(t, Raise(Exc("ConnectionError")))]
          /\ UNCHANGED connVars
    /\ UNCHANGED <<readerVars, termVars, routerVars, _rq_id, clientVars,
                   call, loc, ncalls, nevents>>

\* PacketConnection.send: not connected raises ConnectionError; the header
\* and then the payload are written, and EPIPE from either write closes the
\* connection and raises ConnectionError.
ConnSend(t) ==
    /\ pc[t] \in {"conn_send", "conn_send_payload"}
    /\ IF pc[t] = "conn_send" /\ ~is_connected
       THEN /\ ret' = [ret EXCEPT ![t] = Result(t, Raise(Exc("ConnectionError")))]
            /\ pc' = [pc EXCEPT ![t] = "idle"]
            /\ UNCHANGED <<transport, wire>>
       ELSE IF peer = "reset"
       THEN /\ transport' = "none"
            /\ ret' = [ret EXCEPT ![t] = Result(t, Raise(Exc("ConnectionError")))]
            /\ pc' = [pc EXCEPT ![t] = "idle"]
            /\ UNCHANGED wire
       ELSE /\ wire' = Append(wire,
                       [kind |-> IF pc[t] = "conn_send" THEN "header"
                                                         ELSE "payload",
                        pkt |-> Packet(call[t].op, call[t].args, 0, 0),
                        tag |-> NoTag])
            /\ IF pc[t] = "conn_send"
               THEN pc' = [pc EXCEPT ![t] = "conn_send_payload"] /\ ret' = ret
               ELSE /\ pc' = [pc EXCEPT ![t] = "idle"]
                    /\ ret' = [ret EXCEPT ![t] = Result(t, Return(<<>>))]
            /\ UNCHANGED transport
    /\ UNCHANGED <<ctype, peer, inbox, readerVars, termVars, routerVars,
                   _rq_id, clientVars, call, loc, ncalls, nevents>>

\* PacketConnection.recv: not connected raises ConnectionError. The header is
\* read inside the try block: a read of zero bytes is ECONNRESET, which
\* closes the connection and raises ConnectionError. The payload is read in
\* the else block of the try statement, where nothing catches the OSError of
\* a peer that went away after it wrote the header.
ConnRecv(t) ==
    /\ pc[t] \in {"conn_recv", "conn_recv_payload"}
    /\ IF pc[t] = "conn_recv"
       THEN IF ~is_connected
            THEN /\ ret' = [ret EXCEPT ![t] =
                              Result(t, Raise(Exc("ConnectionError")))]
                 /\ pc' = [pc EXCEPT ![t] = "idle"]
                 /\ UNCHANGED <<transport, inbox>>
            ELSE IF inbox # <<>>
            THEN IF Head(inbox).pkt.size = 0
                 THEN /\ ret' = [ret EXCEPT ![t] = Result(t, Return(<<>>))]
                      /\ pc' = [pc EXCEPT ![t] = "idle"]
                      /\ inbox' = Tail(inbox)
                      /\ UNCHANGED transport
                 ELSE /\ pc' = [pc EXCEPT ![t] = "conn_recv_payload"]
                      /\ UNCHANGED <<transport, inbox, ret>>
            ELSE /\ peer = "reset"
                 /\ transport' = "none"
                 /\ ret' = [ret EXCEPT ![t] =
                              Result(t, Raise(Exc("ConnectionError")))]
                 /\ pc' = [pc EXCEPT ![t] = "idle"]
                 /\ UNCHANGED inbox
       ELSE \/ /\ ret' = [ret EXCEPT ![t] =
                            Result(t, Return(Head(inbox).pkt.payload))]
               /\ pc' = [pc EXCEPT ![t] = "idle"]
               /\ inbox' = Tail(inbox)
               /\ UNCHANGED transport
            \/ /\ peer = "reset"
               /\ ret' = [ret EXCEPT ![t] = Result(t, Raise(Exc("OSError")))]
               /\ pc' = [pc EXCEPT ![t] = "idle"]
               /\ UNCHANGED <<transport, inbox>>
    /\ UNCHANGED <<ctype, peer, wire, readerVars, termVars, routerVars,
                   _rq_id, clientVars, call, loc, ncalls, nevents>>

(* -------------------------------- walk ---------------------------------- *)

\* posixpath.join(top, child) for a child name without slashes.
join(top, child) ==
    IF top = <<>> \/ top[Len(top)] = "/" THEN top \o child
    ELSE top \o <<"/">> \o child

\* Client.list(path) on a store that does not change: / has the children a
\* and c, /a has b and e, /a/b has d, and the other nodes have none.
list(path) ==
    CASE path = Root -> <<<<"a">>, <<"c">>>>
      [] path = PathA -> <<<<"b">>, <<"e">>>>
      [] path = PathAB -> <<<<"d">>>>
      [] OTHER -> <<>>

\* Client.walk(top, topdown): the paths of the tuples it yields, in order.
\* The recursive call is self.walk(posixpath.join(top, child)), with the
\* default topdown=True whatever the caller passed.
RECURSIVE walk(_, _)
RECURSIVE WalkChildren(_, _)
WalkChildren(top, children) ==
    IF children = <<>> THEN <<>>
    ELSE walk(join(top, Head(children)), TRUE)
             \o WalkChildren(top, Tail(children))
walk(top, topdown) ==
    IF topdown THEN <<top>> \o WalkChildren(top, list(top))
    ELSE WalkChildren(top, list(top)) \o <<top>>

\* for x in client.walk(top, topdown): the generator is made.
CallWalk(t, c, top, topdown, max) ==
    /\ Begin(t, [Command("walk", c, 0, OpREAD, <<>>)
                 EXCEPT !.wpath = top, !.topdown = topdown], "walk", max)
    /\ ret' = [ret EXCEPT ![t] = [NoRet EXCEPT !.api = "walk", !.c = c]]
    /\ UNCHANGED <<connVars, readerVars, termVars, routerVars, _rq_id,
                   clientVars, nevents>>

\* next() of the generator: the next tuple is yielded, or the generator ends.
\* ret[t].val holds the paths yielded so far.
WalkNext(t) ==
    /\ pc[t] = "walk"
    /\ LET all == walk(call[t].wpath, call[t].topdown)
           k == Len(ret[t].val)
       IN  IF k < Len(all)
           THEN /\ ret' = [ret EXCEPT ![t].val = Append(@, all[k + 1])]
                /\ UNCHANGED pc
           ELSE /\ ret' = [ret EXCEPT ![t].kind = "return"]
                /\ pc' = [pc EXCEPT ![t] = "idle"]
    /\ UNCHANGED <<connVars, readerVars, termVars, routerVars, _rq_id,
                   clientVars, call, loc, ncalls, nevents>>

(* --------------------------- packet construction ------------------------ *)

\* Packet(op, payload, rq_id, tx_id) called by a thread: the call record
\* keeps rq_id in m and tx_id in token.
CallPacket(t, op, payload, rq_id, tx, max) ==
    LET cl == [Command("packet", 1, rq_id, op, payload) EXCEPT !.token = tx]
    IN  /\ pc[t] = "idle"
        /\ Sum(ncalls, NThreads) < max
        /\ ncalls' = [ncalls EXCEPT ![t] = @ + 1]
        /\ call' = [call EXCEPT ![t] = cl]
        /\ ret' = [ret EXCEPT ![t] =
                     LET res == PacketNew(op, payload, rq_id, tx)
                     IN  [NoRet EXCEPT !.api = "packet", !.kind = res.kind,
                                       !.val = res.val, !.exc = res.exc]]
        /\ UNCHANGED <<pc, loc, connVars, readerVars, termVars, routerVars,
                       _rq_id, clientVars, nevents>>

(* --------------------------- validate_path ------------------------------ *)

\* posixpath.abspath(path): a relative path is joined to the working
\* directory (the root here); the result is never empty.
abspath(path) ==
    IF path # <<>> /\ path[1] = "/" THEN path ELSE <<"/">> \o path

\* re.match("^[a-zA-Z0-9-/_@]+\x00?$", path): one or more bytes of the
\* class, then at most one NUL, then the end of the string or a newline that
\* ends the string.
MatchPath(path) ==
    \E k \in {Len(path) - 2, Len(path) - 1, Len(path)} :
        /\ k >= 1
        /\ \A i \in 1..k : path[i] \in PathBytes
        /\ SubSeq(path, k + 1, Len(path))
               \in {<<>>, <<NUL>>, <<"\n">>, <<NUL, "\n">>}

\* validate_path(path): TRUE when it returns, FALSE when it raises
\* InvalidPath.
validate_path(path) ==
    LET max_len == IF abspath(path) # <<>> THEN 3072 ELSE 2048
    IN  /\ MatchPath(path) /\ Len(path) <= max_len
        /\ ~(Len(path) > 1 /\ path[Len(path)] = "/")
        /\ \A i \in 1..(Len(path) - 1) : ~(path[i] = "/" /\ path[i + 1] = "/")

\* validate_path(path) called by a thread.
CallValidatePath(t, path, max) ==
    /\ pc[t] = "idle"
    /\ Sum(ncalls, NThreads) < max
    /\ ncalls' = [ncalls EXCEPT ![t] = @ + 1]
    /\ call' = [call EXCEPT ![t] = Command("validate_path", 1, 0, OpDEBUG, path)]
    /\ ret' = [ret EXCEPT ![t] =
                 LET res == IF validate_path(path) THEN Return(<<>>)
                            ELSE Raise(Exc("InvalidPath"))
                 IN  [NoRet EXCEPT !.api = "validate_path", !.kind = res.kind,
                                   !.val = res.val, !.exc = res.exc]]
    /\ UNCHANGED <<pc, loc, connVars, readerVars, termVars, routerVars,
                   _rq_id, clientVars, nevents>>

(* ------------------------- packets as bytes ----------------------------- *)

\* Packet._struct.pack(op, rq_id, tx_id, size): four unsigned 32-bit
\* numbers, least significant byte first.
pack(op, rq_id, tx, size) ==
    LET u32(n) == <<n % 256, (n \div 256) % 256, (n \div 65536) % 256,
                    (n \div 16777216) % 256>>
    IN  u32(op) \o u32(rq_id) \o u32(tx) \o u32(size)

\* An unpack that takes tx_id before rq_id.
unpackSwapped(header) ==
    LET n(k) == header[k] + 256 * header[k + 1] + 65536 * header[k + 2]
                + 16777216 * header[k + 3]
    IN  [op |-> n(1), rq_id |-> n(9), tx_id |-> n(5), size |-> n(13)]

\* Packet._struct.unpack(header)
unpack(header) ==
    LET n(k) == header[k] + 256 * header[k + 1] + 65536 * header[k + 2]
                + 16777216 * header[k + 3]
    IN  [op |-> n(1), rq_id |-> n(5), tx_id |-> n(9), size |-> n(13)]

\* connection.send(packet) or connection.recv() called on the bytes of the
\* transport; the call record of a send keeps the packet: rq_id in m, tx_id
\* in token.
CallBytes(t, api, p, max) ==
    /\ Begin(t, [Command(api, 1, p.rq_id, p.op, p.payload)
                 EXCEPT !.token = <<p.tx_id>>], api, max)
    /\ ApiUnchanged

\* PacketConnection.send, byte by byte: the packed header is one write, the
\* payload the next.
SendBytes(t) ==
    /\ pc[t] \in {"bytes_send", "bytes_send_payload"}
    /\ IF pc[t] = "bytes_send" /\ ~is_connected
       THEN /\ ret' = [ret EXCEPT ![t] = Result(t, Raise(Exc("ConnectionError")))]
            /\ pc' = [pc EXCEPT ![t] = "idle"]
            /\ UNCHANGED wire
       ELSE IF pc[t] = "bytes_send"
       THEN /\ wire' = wire \o pack(call[t].op, call[t].m, call[t].token[1],
                                    Len(call[t].args))
            /\ pc' = [pc EXCEPT ![t] = "bytes_send_payload"]
            /\ UNCHANGED ret
       ELSE /\ wire' = wire \o call[t].args
            /\ pc' = [pc EXCEPT ![t] = "idle"]
            /\ ret' = [ret EXCEPT ![t] = Result(t, Return(<<>>))]
    /\ UNCHANGED <<ctype, transport, peer, inbox, readerVars, termVars,
                   routerVars, _rq_id, clientVars, call, loc, ncalls, nevents>>

\* PacketConnection.recv, byte by byte: 16 bytes are read and unpacked; the
\* payload is read only when size is not 0; Packet(op, payload, rq_id, tx_id)
\* is made of the parts. A read blocks until its bytes are there.
RecvBytes(t) ==
    /\ pc[t] \in {"bytes_recv", "bytes_recv_payload"}
    /\ IF pc[t] = "bytes_recv" /\ ~is_connected
       THEN /\ ret' = [ret EXCEPT ![t] = Result(t, Raise(Exc("ConnectionError")))]
            /\ pc' = [pc EXCEPT ![t] = "idle"]
            /\ UNCHANGED <<wire, loc>>
       ELSE IF pc[t] = "bytes_recv"
       THEN /\ Len(wire) >= 16
            /\ LET h == unpack(SubSeq(wire, 1, 16))
               IN  /\ wire' = SubSeq(wire, 17, Len(wire))
                   /\ loc' = [loc EXCEPT ![t].sent = h @@ [payload |-> <<>>]]
                   /\ IF h.size = 0
                      THEN /\ ret' = [ret EXCEPT ![t] =
                                        Result(t, PacketNew(h.op, <<>>, h.rq_id,
                                                            <<h.tx_id>>))]
                           /\ pc' = [pc EXCEPT ![t] = "idle"]
                      ELSE /\ pc' = [pc EXCEPT ![t] = "bytes_recv_payload"]
                           /\ UNCHANGED ret
       ELSE LET h == loc[t].sent
            IN  /\ Len(wire) >= h.size
                /\ wire' = SubSeq(wire, h.size + 1, Len(wire))
                /\ ret' = [ret EXCEPT ![t] =
                             Result(t, PacketNew(h.op, SubSeq(wire, 1, h.size),
                                                 h.rq_id, <<h.tx_id>>))]
                /\ pc' = [pc EXCEPT ![t] = "idle"]
                /\ UNCHANGED loc
    /\ UNCHANGED <<ctype, transport, peer, inbox, readerVars, termVars,
                   routerVars, _rq_id, clientVars, call, ncalls, nevents>>

(* ------------------------------ the monitor ----------------------------- *)

\* A watch() that subscribes the monitor before it checks the path.
CallWatchSubscribeFirst(t, m, wpath, token, max) ==
    LET cl == [Command("watch", MonitorClient(m), m, OpWATCH,
                       wpath \o <<NUL>> \o token \o <<NUL>>)
               EXCEPT !.wpath = wpath, !.token = token]
    IN  /\ pc[t] = "idle"
        /\ Sum(ncalls, NThreads) < max
        /\ ncalls' = [ncalls EXCEPT ![t] = @ + 1]
        /\ call' = [call EXCEPT ![t] = cl]
        /\ loc' = [loc EXCEPT ![t] = [NoLoc EXCEPT !.tx = tx_id[cl.c]]]
        /\ monitors' = [Touch(monitors, token) EXCEPT ![token] = Append(@, m)]
        /\ IF check_watch_path(wpath)
           THEN pc' = [pc EXCEPT ![t] = "rq_load1"] /\ UNCHANGED ret
           ELSE /\ ret' = [ret EXCEPT ![t] =
                            [NoRet EXCEPT !.api = cl.api, !.kind = "raise",
                                          !.exc = Exc("InvalidPath"),
                                          !.c = cl.c, !.m = cl.m]]
                /\ UNCHANGED pc
        /\ UNCHANGED <<connVars, readerVars, termVars, send_lock, rvars, _rq_id,
                       clientVars, nevents>>

\* Monitor.watch(wpath, token): the path is checked, the monitor is
\* subscribed, then WATCH is sent.
CallWatch(t, m, wpath, token, max) ==
    LET cl == [Command("watch", MonitorClient(m), m, OpWATCH,
                       wpath \o <<NUL>> \o token \o <<NUL>>)
               EXCEPT !.wpath = wpath, !.token = token]
    IN  IF check_watch_path(wpath)
        THEN /\ Begin(t, cl, "rq_load1", max)
             /\ monitors' = [Touch(monitors, token)
                             EXCEPT ![token] = Append(@, m)]
             /\ UNCHANGED <<connVars, readerVars, termVars, send_lock, rvars,
                            _rq_id, clientVars, ret, nevents>>
        ELSE Reject(t, cl, Exc("InvalidPath"), max)

\* Monitor.unwatch(wpath, token): the path is checked, then UNWATCH is sent.
CallUnwatch(t, m, wpath, token, max) ==
    LET cl == [Command("unwatch", MonitorClient(m), m, OpUNWATCH,
                       wpath \o <<NUL>> \o token \o <<NUL>>)
               EXCEPT !.wpath = wpath, !.token = token]
    IN  IF check_watch_path(wpath)
        THEN Begin(t, cl, "rq_load1", max) /\ ApiUnchanged
        ELSE Reject(t, cl, Exc("InvalidPath"), max)

\* Monitor.close(): list(self.unwatch_queue) is taken first.
CallMonitorClose(t, m, max) ==
    /\ Begin(t, [Command("monitor_close", MonitorClient(m), m, OpUNWATCH, <<>>)
                 EXCEPT !.todo = unwatch_queue[m]], "close_next", max)
    /\ ApiUnchanged

\* for wpath, token in list(self.unwatch_queue): self.unwatch(wpath, token)
\* -- the records are taken in the order of the set, which is any order; the
\* path of a record has passed check_watch_path in watch().
CloseNext(t) ==
    /\ pc[t] = "close_next"
    /\ IF call[t].todo = {}
       THEN /\ ret' = [ret EXCEPT ![t] = Result(t, Return(<<>>))]
            /\ pc' = [pc EXCEPT ![t] = "idle"]
            /\ UNCHANGED <<call, loc>>
       ELSE /\ \E w \in call[t].todo :
                 call' = [call EXCEPT
                            ![t].wpath = w[1], ![t].token = w[2],
                            ![t].args = w[1] \o <<NUL>> \o w[2] \o <<NUL>>,
                            ![t].todo = @ \ {w}]
            /\ loc' = [loc EXCEPT ![t] = [NoLoc EXCEPT !.tx = tx_id[call[t].c]]]
            /\ pc' = [pc EXCEPT ![t] = "rq_load1"]
            /\ UNCHANGED ret
    /\ UNCHANGED <<connVars, readerVars, termVars, routerVars, _rq_id,
                   clientVars, ncalls, nevents>>

\* next(monitor.wait(unwatched))
CallWait(t, m, unwatched, max) ==
    /\ Begin(t, [Command("wait", MonitorClient(m), m, OpDEBUG, <<>>)
                 EXCEPT !.unwatched = unwatched], "wait", max)
    /\ ApiUnchanged

\* A wait() that takes the newest event of the queue.
WaitGetLast(t) ==
    /\ pc[t] = "wait"
    /\ events[call[t].m] # <<>>
    /\ LET q == events[call[t].m]
       IN  /\ loc' = [loc EXCEPT ![t].event = q[Len(q)],
                                 ![t].wpath = q[Len(q)].path]
           /\ events' = [events EXCEPT ![call[t].m] = SubSeq(q, 1, Len(q) - 1)]
    /\ pc' = [pc EXCEPT ![t] = "filter"]
    /\ UNCHANGED <<connVars, readerVars, termVars, routerVars, _rq_id, tx_id,
                   unwatch_queue, call, ret, ncalls, nevents>>

\* Monitor.wait blocks until the queue holds an event and takes it.
WaitGet(t) ==
    /\ pc[t] = "wait"
    /\ events[call[t].m] # <<>>
    /\ loc' = [loc EXCEPT ![t].event = Head(events[call[t].m]),
                          ![t].wpath = Head(events[call[t].m]).path]
    /\ events' = [events EXCEPT ![call[t].m] = Tail(@)]
    /\ pc' = [pc EXCEPT ![t] = "filter"]
    /\ UNCHANGED <<connVars, readerVars, termVars, routerVars, _rq_id, tx_id,
                   unwatch_queue, call, ret, ncalls, nevents>>

\* while wpath and (wpath, token) not in self.unwatch_queue:
\*     wpath = posixpath.dirname(wpath)
WaitFilter(t) ==
    /\ pc[t] = "filter"
    /\ loc[t].wpath # <<>>
    /\ <<loc[t].wpath, loc[t].event.token>> \notin unwatch_queue[call[t].m]
    /\ loc' = [loc EXCEPT ![t].wpath = dirname(@)]
    /\ UNCHANGED <<connVars, readerVars, termVars, routerVars, _rq_id,
                   clientVars, pc, call, ret, ncalls, nevents>>

\* A wait() that yields whatever the filter loop ends with.
WaitYieldAll(t) ==
    /\ pc[t] = "filter"
    /\ \/ loc[t].wpath = <<>>
       \/ <<loc[t].wpath, loc[t].event.token>> \in unwatch_queue[call[t].m]
    /\ ret' = [ret EXCEPT ![t] =
                 [Result(t, Return(<<>>)) EXCEPT !.event = loc[t].event]]
    /\ pc' = [pc EXCEPT ![t] = "idle"]
    /\ UNCHANGED <<connVars, readerVars, termVars, routerVars, _rq_id,
                   clientVars, call, loc, ncalls, nevents>>

\* if wpath or unwatched: yield event -- otherwise the event is dropped and
\* the generator waits for the next one.
WaitYield(t) ==
    /\ pc[t] = "filter"
    /\ \/ loc[t].wpath = <<>>
       \/ <<loc[t].wpath, loc[t].event.token>> \in unwatch_queue[call[t].m]
    /\ IF loc[t].wpath # <<>> \/ call[t].unwatched
       THEN /\ ret' = [ret EXCEPT ![t] =
                         [Result(t, Return(<<>>)) EXCEPT !.event = loc[t].event]]
            /\ pc' = [pc EXCEPT ![t] = "idle"]
       ELSE /\ ret' = ret
            /\ pc' = [pc EXCEPT ![t] = "wait"]
    /\ UNCHANGED <<connVars, readerVars, termVars, routerVars, _rq_id,
                   clientVars, call, loc, ncalls, nevents>>

Wait(t) == WaitGet(t) \/ WaitFilter(t) \/ WaitYield(t)

(* ---------------------------- specifications ---------------------------- *)

ReaderCore ==
    \/ ReaderLoop \/ ReaderSelect \/ ReaderSelectClosed \/ ReaderRecv
    \/ ReaderFinally \/ ReaderClose \/ ReaderExit

\* Several threads, each with its own client, share one router.
Calls(t) ==
    \/ CallStart(t, OwnClient(t), MaxCalls)
    \/ CallClose(t, OwnClient(t), MaxCalls)
    \/ \E path \in ReadPaths : CallRead(t, OwnClient(t), path, MaxCalls)

Caller(t) == Calls(t) \/ Execute(t) \/ Start(t) \/ Close(t)

Next ==
    \/ \E t \in Threads : Caller(t)
    \/ ReaderCore
    \/ DaemonReply
    \/ PeerReset

Spec == Init /\ [][Next]_vars

\* Every thread that can take a step takes one, and the daemon answers.
FairSpec ==
    /\ Spec
    /\ \A t \in Threads : WF_vars(Execute(t) \/ Start(t) \/ Close(t))
    /\ WF_vars(ReaderCore)
    /\ WF_vars(DaemonReply)

\* One caller thread drives two clients that share the router.
CallsTx(t) ==
    \/ CallStart(t, 1, MaxSeqCalls)
    \/ CallClose(t, 1, MaxSeqCalls)
    \/ \E c \in Clients, path \in ReadPaths : CallRead(t, c, path, MaxSeqCalls)
    \/ \E c \in Clients : CallTransaction(t, c, MaxSeqCalls)
    \/ \E c \in Clients : CallCommit(t, c, MaxSeqCalls)
    \/ \E c \in Clients : CallRollback(t, c, MaxSeqCalls)

NextTx ==
    \/ CallsTx(1) \/ RaiseEalready(1)
    \/ Execute(1) \/ Start(1) \/ Close(1)
    \/ ReaderCore
    \/ DaemonReply
    \/ PeerReset

\* Transactions do not depend on the class of the connection.
InitUnix == Init /\ ctype = "unix"

SpecTx == InitUnix /\ [][NextTx]_vars

\* The reader as long as the connection stays up.
ReaderUp == ReaderLoop \/ ReaderSelect \/ ReaderRecv \/ ReaderFanout

\* One caller thread sets and removes watches: `ws` holds the (monitor, wpath,
\* token) triples it may use.
CallsMonitor(t, ws, max) ==
    \/ CallStart(t, 1, max)
    \/ \E w \in ws : CallWatch(t, w[1], w[2], w[3], max)
    \/ \E w \in ws : CallUnwatch(t, w[1], w[2], w[3], max)

\* Two monitors of one router, while the daemon fires watches.
NextFanout ==
    \/ CallsMonitor(1, Monitors \X WatchPaths \X Tokens, MaxFanoutCalls)
    \/ Execute(1) \/ Start(1)
    \/ ReaderUp
    \/ DaemonReply
    \/ DaemonWatchEvent({PathA}, MaxEvents)

SpecFanout == InitUnix /\ [][NextFanout]_vars

\* The watches of the monitor whose owner waits for its events.
WaitWatches == {<<1, PathA, Tok1>>, <<1, RelAB, Tok2>>}

\* The paths of the events that reach it: below a watched path, beside one,
\* and a watched relative path itself.
WaitEventPaths == {PathAB, PathAx, RelAB}

\* One monitor whose owner also waits for its events.
NextWait ==
    \/ CallsMonitor(1, WaitWatches, MaxWaitCalls)
    \/ \E unwatched \in BOOLEAN : CallWait(1, 1, unwatched, MaxWaitCalls)
    \/ Execute(1) \/ Start(1) \/ Wait(1)
    \/ ReaderUp
    \/ DaemonReply
    \/ DaemonWatchEvent(WaitEventPaths, MaxWaitEvents)

SpecWait == InitUnix /\ [][NextWait]_vars

\* The same with every wait() filtering its events, and more events.
NextWaitFiltered ==
    \/ CallsMonitor(1, WaitWatches, MaxWaitCalls)
    \/ CallWait(1, 1, FALSE, MaxWaitCalls)
    \/ Execute(1) \/ Start(1) \/ Wait(1)
    \/ ReaderUp
    \/ DaemonReply
    \/ DaemonWatchEvent(WaitEventPaths, MaxEvents)

\* The caller and the reader run whenever they can, and the daemon answers.
FairSpecWait ==
    /\ InitUnix /\ [][NextWaitFiltered]_vars
    /\ WF_vars(Execute(1) \/ Start(1) \/ Wait(1))
    /\ WF_vars(ReaderUp)
    /\ WF_vars(DaemonReply)

\* One caller uses a client as a context manager: it connects, may start a
\* transaction and leaves the with block, with or without an exception.
CallsExit(t) ==
    \/ CallStart(t, 1, MaxExitCalls)
    \/ CallTransaction(t, 1, MaxExitCalls)
    \/ \E exc_info \in BOOLEAN : CallExit(t, 1, exc_info, MaxExitCalls)

NextExit ==
    \/ CallsExit(1) \/ RaiseEalready(1)
    \/ Execute(1) \/ Start(1) \/ Close(1) \/ ExitCheck(1)
    \/ ReaderCore
    \/ DaemonReply
    \/ PeerReset

SpecExit == InitUnix /\ [][NextExit]_vars

\* One caller reads, inside and outside a transaction, from a peer that may
\* break the protocol.
CallsReply(t) ==
    \/ CallStart(t, 1, MaxReplyCalls)
    \/ CallTransaction(t, 1, MaxReplyCalls)
    \/ \E path \in ReadPaths : CallRead(t, 1, path, MaxReplyCalls)

NextReply ==
    \/ CallsReply(1) \/ RaiseEalready(1)
    \/ Execute(1) \/ Start(1)
    \/ ReaderLoop \/ ReaderSelect \/ ReaderRecv
    \/ DaemonReply
    \/ DaemonMisreply

SpecReply == InitUnix /\ [][NextReply]_vars

\* One caller passes valid and invalid arguments, before and after start(),
\* inside and outside a transaction.
NextValid ==
    \/ CallStart(1, 1, MaxValidCalls)
    \/ CallTransaction(1, 1, MaxValidCalls)
    \/ \E path \in CheckedPaths : CallRead(1, 1, path, MaxValidCalls)
    \/ \E path \in CheckedPaths, perms \in {GoodPerms, BadPerms} :
         CallSetPerms(1, 1, path, perms, MaxValidCalls)
    \/ \E wpath \in CheckedWatchPaths :
         CallWatch(1, 1, wpath, Tok1, MaxValidCalls)
    \/ \E wpath \in CheckedWatchPaths :
         CallUnwatch(1, 1, wpath, Tok1, MaxValidCalls)
    \/ RaiseEalready(1) \/ Execute(1) \/ Start(1)
    \/ ReaderLoop \/ ReaderSelect \/ ReaderRecv
    \/ DaemonReply

SpecValid == InitUnix /\ [][NextValid]_vars

\* One thread connects, sends and receives on a connection of its own, and
\* the daemon answers or goes away.
NextConn ==
    \/ \E api \in {"conn_connect", "conn_send", "conn_recv"} :
         CallConn(1, api, MaxConnCalls)
    \/ ConnConnect(1) \/ ConnSend(1) \/ ConnRecv(1)
    \/ DaemonReply
    \/ PeerReset

SpecConn == Init /\ [][NextConn]_vars

\* One caller sets and removes watches of monitor 1 and closes the monitor.
NextClose ==
    \/ CallsMonitor(1, {<<1, PathA, Tok1>>, <<1, RelA, Tok2>>}, MaxCloseCalls)
    \/ CallMonitorClose(1, 1, MaxCloseCalls)
    \/ CloseNext(1)
    \/ Execute(1) \/ Start(1)
    \/ ReaderLoop \/ ReaderSelect \/ ReaderRecv
    \/ DaemonReply

SpecClose == InitUnix /\ [][NextClose]_vars

\* The paths of the events the daemon sends, in the order it sends them: the
\* first and the third are below or at the watched path, the others are not.
OrderPaths == <<PathAB, RelAB, PathA, RelA>>

\* One monitor watches /a; the daemon sends its k-th event with the k-th
\* path, and the owner of the monitor waits for the events.
NextOrder ==
    \/ CallsMonitor(1, {<<1, PathA, Tok1>>}, MaxOrderCalls)
    \/ \E unwatched \in BOOLEAN : CallWait(1, 1, unwatched, MaxOrderCalls)
    \/ Execute(1) \/ Start(1) \/ Wait(1)
    \/ ReaderUp
    \/ DaemonReply
    \/ Tok1 \in DOMAIN monitors
         /\ Emit(OrderPaths[nevents + 1], Tok1, MaxOrderEvents)

SpecOrder == InitUnix /\ [][NextOrder]_vars

\* One caller walks the store from any of its nodes, in either order.
NextWalk ==
    \/ \E top \in {Root, PathA, PathAB, join(Root, <<"c">>),
                   join(PathA, <<"e">>), join(PathAB, <<"d">>)},
          topdown \in BOOLEAN :
         CallWalk(1, 1, top, topdown, MaxWalkCalls)
    \/ WalkNext(1)

SpecWalk == InitUnix /\ [][NextWalk]_vars

\* n bytes of payload.
Bytes(n) == [i \in 1..n |-> "x"]

\* One caller makes packets with recognized and unknown ops, with payloads
\* around the limit, with and without a tx_id.
NextPacket ==
    \E op \in {-1, OpDEBUG, OpERROR, 20, 127, 128, 129},
       payload \in {<<>>, Value, Bytes(MaxPayload - 1), Bytes(MaxPayload),
                    Bytes(MaxPayload + 1)},
       rq_id \in {0, 7},
       tx \in {<<>>, <<0>>, <<3>>} :
        CallPacket(1, op, payload, rq_id, tx, MaxPacketCalls)

SpecPacket == InitUnix /\ [][NextPacket]_vars

\* The well-formed packets that are written: the fields have values of one
\* byte and of several, up to 2^31 - 1; the payload is empty or not.
CodecPackets ==
    {Packet(op, payload, rq_id, tx) :
        op \in {OpDEBUG, OpERROR, 128},
        payload \in {<<>>, Value, <<"v", NUL>>},
        rq_id \in {0, 256, 2147483647},
        tx \in {0, 65537}}

\* Thread 1 connects once and writes packets to a stream whose other end is
\* read by thread 2; a packet is written when the stream holds no bytes.
NextCodec ==
    \/ ~is_connected /\ CallConn(1, "conn_connect", MaxCodecCalls)
    \/ ConnConnect(1)
    \/ wire = <<>> /\ \E p \in CodecPackets :
         CallBytes(1, "bytes_send", p, MaxCodecCalls)
    \/ SendBytes(1)
    \/ CallBytes(2, "bytes_recv", NoPacket, MaxCodecCalls)
    \/ RecvBytes(2)

SpecCodec == InitUnix /\ [][NextCodec]_vars

\* n bytes of a relative path, and of an absolute one.
RelPath(n) == [i \in 1..n |-> "a"]
AbsPath(n) == [i \in 1..n |-> IF i = 1 THEN "/" ELSE "a"]

\* Paths around the two length limits, and short paths of every kind.
ValidatedPaths ==
    {RelPath(n) : n \in {0, 1, 2048, 2049, 3072, 3073}}
    \cup {AbsPath(n) : n \in {1, 2, 2049, 3072, 3073}}
    \cup {PathAB, RelAB, Percent, TrailingSlash, AtArbitrary,
          <<"/", "a", "/", "/", "b">>, <<"/", "/">>,
          PathA \o <<NUL>>, PathA \o <<"\n">>, PathA \o <<NUL, NUL>>}

NextPath ==
    \E t \in Threads, path \in ValidatedPaths :
        CallValidatePath(t, path, MaxPathCalls)

SpecPath == InitUnix /\ [][NextPath]_vars

\* A router is constructed in a fresh process, or in one whose earlier
\* clients have made maxsize - 1 requests: the counter holds maxsize - 2.
InitWrap == (Constructed(-1) \/ Constructed(maxsize - 2)) /\ ctype = "unix"

\* One caller starts the router and reads.
NextWrap ==
    \/ CallStart(1, 1, MaxWrapCalls)
    \/ \E path \in ReadPaths : CallRead(1, 1, path, MaxWrapCalls)
    \/ Execute(1) \/ Start(1)
    \/ ReaderLoop \/ ReaderSelect \/ ReaderRecv
    \/ DaemonReply

SpecWrap == InitWrap /\ [][NextWrap]_vars

\* Thread 1 starts the router; threads 1 and 2 read at the same time, each
\* with its own client; the daemon answers or goes away.
NextCells ==
    \/ CallStart(1, OwnClient(1), MaxCellCalls)
    \/ \E path \in ReadPaths : CallRead(1, OwnClient(1), path, MaxCellCalls)
    \/ \E path \in ReadPaths : CallRead(2, OwnClient(2), path, MaxCellCalls)
    \/ Execute(1) \/ Execute(2) \/ Start(1)
    \/ ReaderLoop \/ ReaderSelect \/ ReaderRecv
    \/ ReaderFinally \/ ReaderClose \/ ReaderExit
    \/ DaemonReply
    \/ PeerReset

SpecCells == InitUnix /\ [][NextCells]_vars

\* One caller starts the router, reads and closes its client; the daemon
\* answers, sends packets nobody asked for, or goes away.
NextReaderExit ==
    \/ CallStart(1, 1, MaxReaderCalls)
    \/ CallClose(1, 1, MaxReaderCalls)
    \/ \E path \in ReadPaths : CallRead(1, 1, path, MaxReaderCalls)
    \/ Execute(1) \/ Start(1) \/ Close(1)
    \/ ReaderCore
    \/ DaemonReply
    \/ DaemonStray(MaxStrays)
    \/ PeerReset

SpecReaderExit == InitUnix /\ [][NextReaderExit]_vars

\* One caller reads and sets and removes a watch of monitor 1 with the first
\* token, while the daemon sends events with any token.
NextEvents ==
    \/ CallsMonitor(1, {<<1, PathA, Tok1>>}, MaxEventCalls)
    \/ \E path \in ReadPaths : CallRead(1, 1, path, MaxEventCalls)
    \/ Execute(1) \/ Start(1)
    \/ ReaderUp
    \/ DaemonReply
    \/ DaemonEvent

SpecEvents == InitUnix /\ [][NextEvents]_vars

\* The daemon fires the watch that monitor 2 holds under the first token:
\* the record of the monitor says that the daemon has processed its WATCH.
DaemonFire(max) ==
    /\ <<RelA, Tok1>> \in unwatch_queue[2]
    /\ Emit(OrderPaths[nevents + 1], Tok1, max)

\* One caller sets a watch of monitor 2 that is never removed, and sets and
\* removes a watch of monitor 1 with the same token, while the reader fans
\* out the events of the token.
NextSubscribed ==
    \/ CallsMonitor(1, {<<1, PathA, Tok1>>}, MaxSubCalls)
    \/ CallWatch(1, 2, RelA, Tok1, MaxSubCalls)
    \/ Execute(1) \/ Start(1)
    \/ ReaderUp
    \/ DaemonReply
    \/ DaemonFire(MaxEvents)

SpecSubscribed == InitUnix /\ [][NextSubscribed]_vars

\* One caller starts the router and then sets watches of monitor 1, with two
\* paths and one token, and removes watches the monitor has a record of; the
\* daemon accepts every request, so that every call succeeds.
NextRecords ==
    \/ CallStart(1, 1, MaxRecordCalls)
    \/ thread = "alive" /\ \E wpath \in WatchPaths :
         CallWatch(1, 1, wpath, Tok1, MaxRecordCalls)
    \/ \E rec \in unwatch_queue[1] :
         CallUnwatch(1, 1, rec[1], rec[2], MaxRecordCalls)
    \/ Execute(1) \/ Start(1)
    \/ ReaderLoop \/ ReaderSelect \/ ReaderRecv
    \/ DaemonAck

SpecRecords == InitUnix /\ [][NextRecords]_vars

\* One caller starts the router, starts a transaction and rolls it back; the
\* daemon answers, answers against the protocol, or goes away.
NextRollback ==
    \/ CallStart(1, 1, MaxRollbackCalls)
    \/ CallTransaction(1, 1, MaxRollbackCalls)
    \/ CallRollback(1, 1, MaxRollbackCalls)
    \/ RaiseEalready(1) \/ Execute(1) \/ Start(1)
    \/ ReaderCore
    \/ DaemonReply
    \/ DaemonMisreply
    \/ PeerReset

SpecRollback == InitUnix /\ [][NextRollback]_vars

\* One caller works with client 1, with client 2, which it may make anew as
\* a copy of client 1, and with monitor 1 of client 1: transactions on both
\* clients, a watch of the monitor.
NextShared ==
    \/ CallStart(1, 1, MaxSharedCalls)
    \/ \E c \in Clients : CallTransaction(1, c, MaxSharedCalls)
    \/ \E c \in Clients : CallCommit(1, c, MaxSharedCalls)
    \/ \E c \in Clients : CallRollback(1, c, MaxSharedCalls)
    \/ CallCopy(1, 1, 2, MaxSharedCalls)
    \/ CallWatch(1, 1, PathA, Tok1, MaxSharedCalls)
    \/ CallUnwatch(1, 1, PathA, Tok1, MaxSharedCalls)
    \/ RaiseEalready(1) \/ Execute(1) \/ Start(1)
    \/ ReaderLoop \/ ReaderSelect \/ ReaderRecv
    \/ DaemonReply

SpecShared == InitUnix /\ [][NextShared]_vars

(* -------------------------------- claims -------------------------------- *)

\* C1: whenever a caller's response cell holds a packet, that packet has the
\* rq_id of the packet the caller sent and is the daemon's answer to this
\* caller's own request, not to the request of another caller.
C1_OwnResponse ==
    \A t \in Threads :
        loc[t].target # <<>> =>
            /\ loc[t].target[1].rq_id = loc[t].sent.rq_id
            /\ loc[t].from = loc[t].tag
\* C3: once the reader thread is gone, every caller still blocked on an unset
\* response cell is eventually woken and ends with a ConnectionError.
C3_WaitersWoken ==
    \A t \in Threads :
        (thread = "dead" /\ pc[t] = "get" /\ loc[t].target = <<>>)
            ~> (pc[t] = "idle" /\ ret[t].kind = "raise"
                /\ ret[t].exc.type = "ConnectionError")

\* C5: a terminate() entered while the reader thread is alive eventually
\* returns, with the reader thread exited.
C5_TerminateReturns ==
    \A t \in Threads :
        (pc[t] = "terminate" /\ thread = "alive")
            ~> (pc[t] = "idle" /\ ret[t].api = "close"
                /\ ret[t].kind = "return" /\ thread = "dead")
\* C4: when terminate() has returned, the reader thread is not alive and the
\* connection is closed.
C4_TerminatedRouter ==
    \A t \in Threads :
        (pc[t] = "idle" /\ ret[t].api = "close" /\ ret[t].kind = "return")
            => (thread # "alive" /\ ~is_connected)

\* The daemon's answer to the request of thread t, once it has arrived.
Answer(t) == loc[t].target[1]

\* C8: commit() hands TRANSACTION_END with payload T NUL to the router; it
\* returns True on the daemon's OK and False on the daemon's EAGAIN, and the
\* client's tx_id is 0 when it has ended.
C8_Commit ==
    \A t \in Threads :
        (pc[t] = "idle" /\ ret[t].api = "commit") =>
            /\ loc[t].sent.op = OpTRANSACTION_END
            /\ loc[t].sent.payload = <<"T", NUL>>
            /\ tx_id[ret[t].c] = 0
            /\ loc[t].target # <<>> =>
                 /\ (/\ Answer(t).op = OpTRANSACTION_END
                     /\ Answer(t).tx_id = loc[t].sent.tx_id
                     /\ Answer(t).payload = OK \o <<NUL>>)
                      => (ret[t].kind = "return" /\ ret[t].val = True)
                 /\ (/\ Answer(t).op = OpERROR
                     /\ Answer(t).payload = EAGAIN \o <<NUL>>)
                      => (ret[t].kind = "return" /\ ret[t].val = False)

C8_Witness ==
    /\ pc[1] = "idle" /\ ret[1].api = "commit" /\ ret[1].val = False
    /\ loc[1].sent.tx_id # 0 /\ tx_id[ret[1].c] = 0
    /\ Answer(1).payload = EAGAIN \o <<NUL>>

\* C9: transaction() called on a client whose tx_id is not 0 raises EALREADY,
\* hands no packet to the router and leaves tx_id as it was.
C9_NestedTransaction ==
    \A t \in Threads :
        (call[t].api = "transaction" /\ loc[t].tx # 0) =>
            /\ pc[t] \in {"ealready", "idle"}
            /\ loc[t].sent = NoPacket /\ loc[t].tag = NoTag
            /\ tx_id[call[t].c] = loc[t].tx
            /\ pc[t] = "idle" =>
                 (ret[t].kind = "raise" /\ ret[t].exc = error(EALREADY))

C9_Witness ==
    /\ pc[1] = "idle" /\ ret[1].api = "transaction"
    /\ ret[1].exc = error(EALREADY) /\ tx_id[ret[1].c] # 0

\* C10: a client's tx_id changes only to the non-zero id in the daemon's
\* answer when transaction() returns and to 0 when commit() ends or
\* rollback() returns, and every packet a client hands to the router carries
\* the client's tx_id.
C10_Step ==
    /\ \A c \in AllClients :
         tx_id'[c] # tx_id[c] =>
            \E t \in Threads :
               /\ call[t].c = c /\ pc[t] # "idle" /\ pc'[t] = "idle"
               /\ \/ /\ call[t].api = "transaction" /\ pc[t] = "get"
                     /\ tx_id[c] = 0 /\ tx_id'[c] # 0
                     /\ Str(tx_id'[c]) = RStrip(Answer(t).payload)
                  \/ /\ call[t].api \in {"commit", "rollback"}
                     /\ tx_id'[c] = 0
    /\ \A t \in Threads :
         pc'[t] \in {"send", "write_header", "write_payload", "get"} =>
            loc'[t].sent.tx_id = tx_id'[call'[t].c]

IsAncestorOrSelf(wpath, path) ==
    /\ Len(wpath) <= Len(path)
    /\ SubSeq(path, 1, Len(wpath)) = wpath
    /\ \/ Len(wpath) = Len(path)
       \/ path[Len(wpath) + 1] = "/"
       \/ (wpath # <<>> /\ wpath[Len(wpath)] = "/")

\* Monitor m has an active record with the event's token for the event's path
\* or an ancestor of it.
Watched(m, event) ==
    \E rec \in unwatch_queue[m] :
        rec[2] = event.token /\ IsAncestorOrSelf(rec[1], event.path)

\* C2: every put of a fan-out gives the event to a monitor that is subscribed
\* to the event's token and has not been given this event before, and when
\* the fan-out ends every monitor subscribed to the token has the event.
C2_Step ==
    /\ (rpc = "fanout" /\ events' # events) =>
          \E m \in Monitors :
             /\ events' = [events EXCEPT ![m] = Append(@, rev)]
             /\ Contains(monitors[rev.token], m)
             /\ \A k \in 1..(ridx - 1) :
                   k <= Len(monitors[rev.token]) => monitors[rev.token][k] # m
    /\ (rpc = "fanout" /\ rpc' = "loop") =>
          \A m \in Monitors :
             Contains(monitors[rev.token], m) => Contains(events[m], rev)

C2_ExactlyOnce == [][C2_Step]_vars

\* C6: wait() without `unwatched` yields the event it has dequeued only if the
\* monitor has an active record for it, drops it only if the monitor has
\* none, and never loops on an event for which the monitor has a record.
C6_Step ==
    \A t \in Threads :
        (pc[t] = "filter" /\ ~call[t].unwatched) =>
            /\ pc'[t] = "idle" =>
                  /\ Watched(call[t].m, loc[t].event)
                  /\ ret'[t].api = "wait" /\ ret'[t].event = loc[t].event
            /\ pc'[t] = "wait" => ~Watched(call[t].m, loc[t].event)
            /\ (/\ dirname(loc[t].wpath) = loc[t].wpath
                /\ <<loc[t].wpath, loc[t].event.token>>
                      \notin unwatch_queue[call[t].m])
                  => ~Watched(call[t].m, loc[t].event)

C7_DropsAndGoesOn ==
    (/\ pc[1] = "filter" /\ ~call[1].unwatched
     /\ ~Watched(call[1].m, loc[1].event)
     /\ events[call[1].m] # <<>>
     /\ Watched(call[1].m, Head(events[call[1].m])))
        ~> (/\ pc[1] = "idle" /\ ret[1].api = "wait"
            /\ Watched(ret[1].m, ret[1].event))

\* C11: the packet rollback() hands to the router is TRANSACTION_END with
\* payload F NUL, and when rollback() has returned the client's tx_id is 0.
C11_Rollback ==
    \A t \in Threads :
        call[t].api = "rollback" =>
            /\ pc[t] \in {"send", "write_header", "write_payload", "get"} =>
                 /\ loc[t].sent.op = OpTRANSACTION_END
                 /\ loc[t].sent.payload = <<"F", NUL>>
            /\ (pc[t] = "idle" /\ ret[t].kind = "return") =>
                 /\ loc[t].sent.op = OpTRANSACTION_END
                 /\ loc[t].sent.payload = <<"F", NUL>>
                 /\ Answer(t).payload = OK \o <<NUL>>
                 /\ tx_id[call[t].c] = 0

C11_Witness ==
    /\ pc[1] = "idle" /\ ret[1].api = "rollback" /\ ret[1].kind = "return"
    /\ loc[1].sent.tx_id # 0 /\ tx_id[ret[1].c] = 0

\* C12: the check of tx_id comes after close() has joined the reader; when
\* __exit__ has ended with an exception in flight, that exception propagates,
\* and when it has ended with tx_id not 0 and no exception in flight, it has
\* raised PyXSError("uncommitted transaction").
C12_Exit ==
    \A t \in Threads :
        /\ pc[t] = "exit_check" => thread # "alive"
        /\ (pc[t] = "idle" /\ ret[t].api = "exit" /\ call[t].exc_info) =>
              (ret[t].kind = "raise" /\ ret[t].exc = InFlight)
        /\ (/\ pc[t] = "idle" /\ ret[t].api = "exit" /\ ~call[t].exc_info
            /\ tx_id[call[t].c] # 0) =>
              (ret[t].kind = "raise" /\ ret[t].exc = Uncommitted)

BadArgument(cl) ==
    \/ cl.api \in {"read", "set_perms"} /\ cl.wpath \in {Percent, TrailingSlash}
    \/ cl.api = "set_perms" /\ cl.args = cl.wpath \o <<NUL>> \o Joined(BadPerms)
    \/ cl.api \in {"watch", "unwatch"} /\ cl.wpath \in {AtArbitrary, Percent}

C14_Step ==
    \A t \in Threads :
        (ncalls'[t] # ncalls[t] /\ BadArgument(call'[t])) =>
            /\ pc'[t] = "idle"
            /\ ret'[t].kind = "raise"
            /\ ret'[t].exc =
                 IF call'[t].wpath \in {Percent, TrailingSlash}
                    \/ call'[t].api \in {"watch", "unwatch"}
                 THEN Exc("InvalidPath") ELSE Exc("InvalidPermission")
            /\ UNCHANGED <<wire, inbox, transport, _rq_id, rvars, monitors,
                           unwatch_queue, tx_id>>

AgainClosing(t) ==
    /\ pc[t] \in {"terminate", "sendall", "join"} /\ call[t].api = "close"
    /\ \/ ret[t].api = "close" /\ ret[t].kind = "return"
       \/ thread = "new" /\ transport = "none"

C15_Step ==
    \A t \in Threads :
        (AgainClosing(t) /\ pc'[t] # pc[t]) =>
            /\ UNCHANGED <<connVars, readerVars, termVars, routerVars>>
            /\ pc'[t] = "idle" => ret'[t].kind = "return"

\* C15: a close() on a router that a close() has already terminated, or that
\* was never started, changes nothing in the router and its connection and
\* returns.
C15_Idempotent == [][C15_Step]_vars

\* C16: clients 1 and 2 share the router and only client 1 is ever closed;
\* when close() of client 1 has returned on a started router whose daemon
\* did not reset the connection, the reader thread is alive and the
\* connection is open, for client 2 to use.
C16_LastClientOut ==
    \A t \in Threads :
        (/\ pc[t] = "idle" /\ ret[t].api = "close" /\ ret[t].c = 1
         /\ ret[t].kind = "return"
         /\ thread # "new" /\ peer = "up")
            => (thread = "alive" /\ is_connected)

\* C17: when send() or recv() of a connection has raised, it has raised
\* ConnectionError and the connection is closed.
C17_TransportErrors ==
    \A t \in Threads :
        (/\ pc[t] = "idle" /\ ret[t].api \in {"conn_send", "conn_recv"}
         /\ ret[t].kind = "raise")
            => (ret[t].exc = Exc("ConnectionError") /\ ~is_connected)

\* C18: when Monitor.close() has returned, the monitor has no records and the
\* router lists it under no token.
C18_MonitorClosed ==
    \A t \in Threads :
        (/\ pc[t] = "idle" /\ ret[t].api = "monitor_close"
         /\ ret[t].kind = "return")
            => /\ unwatch_queue[ret[t].m] = {}
               /\ \A token \in DOMAIN monitors :
                    ~Contains(monitors[token], ret[t].m)

\* The place of an event in the order in which the daemon sent the events,
\* which is the order in which the reader decodes them.
Rank(e) == CHOOSE k \in 1..Len(OrderPaths) : OrderPaths[k] = e.path

\* C19: the events in a monitor's queue are in the order in which they were
\* decoded, the event the reader is handing out is not older than any event
\* in a queue, and an event that wait() has taken or yielded was decoded
\* before every event that is still in the queue.
C19_EventOrder ==
    /\ \A m \in Monitors :
         LET q == events[m]
         IN  /\ \A i, j \in 1..Len(q) : i < j => Rank(q[i]) <= Rank(q[j])
             /\ rpc = "fanout" => \A i \in 1..Len(q) : Rank(q[i]) <= Rank(rev)
    /\ \A t \in Threads :
         LET q == events[call[t].m]
         IN  /\ (call[t].api = "wait" /\ pc[t] = "filter") =>
                   \A i \in 1..Len(q) : Rank(loc[t].event) <= Rank(q[i])
             /\ (call[t].api = "wait" /\ ret[t].api = "wait"
                 /\ ret[t].kind = "return") =>
                   /\ \A i \in 1..Len(q) : Rank(ret[t].event) <= Rank(q[i])
                   /\ pc[t] = "filter" => Rank(ret[t].event) <= Rank(loc[t].event)

\* The second wait() has dropped the second event and yielded the third.
C19_Witness ==
    /\ pc[1] = "idle" /\ ret[1].api = "wait" /\ ret[1].kind = "return"
    /\ ~call[1].unwatched
    /\ ret[1].event = Event(OrderPaths[3], Tok1)
    /\ ncalls[1] = 4

\* The nodes of the subtree rooted at top.
RECURSIVE Subtree(_)
Subtree(top) ==
    {top} \cup UNION {Subtree(join(top, list(top)[k])) : k \in 1..Len(list(top))}

\* d is below a.
IsBelow(d, a) == d # a /\ IsAncestorOrSelf(a, d)

\* C20: a walk yields no node twice and only nodes of the subtree of top, and
\* all of them when it has ended; with topdown no node is yielded after one
\* of its descendants, and without topdown every node is yielded after all
\* of its descendants.
C20_WalkOrder ==
    \A t \in Threads :
        ret[t].api = "walk" =>
            LET out == ret[t].val
                top == call[t].wpath
            IN  /\ \A i, j \in 1..Len(out) : i < j => out[i] # out[j]
                /\ \A i \in 1..Len(out) : out[i] \in Subtree(top)
                /\ ret[t].kind = "return" =>
                     \A n \in Subtree(top) : \E i \in 1..Len(out) : out[i] = n
                /\ call[t].topdown =>
                     \A i, j \in 1..Len(out) : i < j => ~IsBelow(out[i], out[j])
                /\ ~call[t].topdown =>
                     \A i \in 1..Len(out) : \A n \in Subtree(top) :
                         IsBelow(n, out[i]) => \E j \in 1..(i - 1) : out[j] = n

C21_Step ==
    \A t \in Threads :
        /\ (pc[t] = "start_connect" /\ pc'[t] = "idle" /\ thread = "new") =>
              /\ ret'[t].kind = "raise"
              /\ ret'[t].exc = Exc("ConnectionError")
              /\ thread' = "new" /\ ~is_connected'
        /\ (pc[t] \in {"start_connect", "start_alive", "start_thread",
                       "start_wait"} /\ pc'[t] # pc[t] /\ thread = "alive") =>
              /\ transport' = transport
              /\ thread' = thread

\* C21: when connecting fails in start() on a router that has no reader,
\* start() raises ConnectionError and there is still no reader and no
\* connection; no step of start() on a router whose reader thread is alive
\* opens a connection or starts a thread.
C21_Start == [][C21_Step]_vars

C23_Step ==
    (pc[2] \in {"bytes_recv", "bytes_recv_payload"} /\ pc'[2] = "idle"
     /\ is_connected) =>
        /\ ret'[2].kind = "return"
        /\ ret'[2].val = Packet(call[1].op, call[1].args, call[1].m,
                                call[1].token[1])
        /\ ret'[2].val.size = 0 => pc[2] = "bytes_recv"

\* C23: when recv() returns on the stream that send() wrote a packet to, it
\* returns a packet equal to the one that was sent, and a packet of size 0
\* is returned by the step that read the header, with no read after it.
C23_RoundTrip == [][C23_Step]_vars

\* A packet with a large rq_id, a tx_id and a payload has been received.
C23_Witness ==
    /\ pc[2] = "idle" /\ ret[2].api = "bytes_recv" /\ ret[2].kind = "return"
    /\ ret[2].val.rq_id = 2147483647 /\ ret[2].val.tx_id = 65537
    /\ ret[2].val.size = 2 /\ ret[2].val.op = 128

\* C24: a path that validate_path accepted holds at most 3072 bytes when it
\* starts with / and at most 2048 when it does not, consists of ASCII
\* alphanumerics and - / _ @ only, holds no // and does not end in / unless
\* it is the root path.
C24_AcceptedPaths ==
    \A t \in Threads :
    (ret[t].api = "validate_path" /\ ret[t].kind = "return") =>
        LET path == call[t].args
        IN  /\ Len(path) <= (IF path[1] = "/" THEN 3072 ELSE 2048)
            /\ \A i \in 1..Len(path) : path[i] \in PathBytes
            /\ \A i \in 1..(Len(path) - 1) :
                   ~(path[i] = "/" /\ path[i + 1] = "/")
            /\ (path[Len(path)] = "/" => path = Root)

C25_Step ==
    /\ \A t \in Threads :
         (pc[t] = "write_header" /\ wire' # wire) =>
             /\ loc[t].sent.rq_id \in DOMAIN rvars
             /\ rvars[loc[t].sent.rq_id] = loc[t].tag
    /\ (rpc = "recv" /\ inbox # <<>> /\ inbox' = Tail(inbox)
        /\ Head(inbox).pkt.op # OpWATCH_EVENT) =>
             Head(inbox).pkt.rq_id \in DOMAIN rvars

\* C25: when the first byte of a request goes out, the pending map holds the
\* sender's cell under the request's rq_id, and when the reader takes a
\* response from the connection the pending map holds a cell under the
\* response's rq_id.
C25_CellPresent == [][C25_Step]_vars

\* The thread holds a request id that next_rq_id() returned to it and whose
\* request is outstanding.
Outstanding(t) == pc[t] \in {"send", "write_header", "write_payload", "get"}

\* C26: two threads whose requests are outstanding at the same time hold
\* different request ids.
C26_UniqueIds ==
    \A t1, t2 \in Threads :
        (t1 # t2 /\ Outstanding(t1) /\ Outstanding(t2)) =>
            loc[t1].rq # loc[t2].rq

C27_Step ==
    /\ _rq_id' # _rq_id => _rq_id' - 1 = _rq_id
    /\ \A t \in Threads :
         (pc[t] = "rq_return" /\ pc'[t] = "send") =>
             (loc'[t].rq >= 0 /\ loc'[t].rq \div 65536 < 65536)

\* C27: the request counter only ever steps to its successor modulo 2^32
\* (below 2^32 - 1 that is the next number), and every id next_rq_id()
\* returns is in 0 .. 2^32 - 1.
C27_Wrap32 == [][C27_Step]_vars

\* C28: the send lock is held by a thread exactly while it is inside
\* Router.send writing its packet, and on the transport every header is
\* followed at once by the payload of the same send, or is the last thing
\* written by a sender that still holds the lock or whose connection is closed.
C28_Serialized ==
    /\ \A t \in Threads :
         send_lock = t <=> pc[t] \in {"write_header", "write_payload"}
    /\ \A i \in 1..Len(wire) :
         /\ wire[i].kind = "payload" =>
              (i > 1 /\ wire[i - 1].kind = "header"
               /\ wire[i - 1].tag = wire[i].tag)
         /\ wire[i].kind = "header" =>
              IF i < Len(wire)
              THEN wire[i + 1].kind = "payload" /\ wire[i + 1].tag = wire[i].tag
              ELSE is_connected =>
                     \E t \in Threads :
                        /\ pc[t] = "write_payload" /\ send_lock = t
                        /\ loc[t].tag = wire[i].tag

C29_Step ==
    \A t \in Threads :
        /\ (loc[t].target # <<>> /\ ncalls'[t] = ncalls[t]) =>
               (loc'[t].target = loc[t].target /\ loc'[t].from = loc[t].from)
        /\ (loc[t].target = <<>> /\ loc'[t].target # <<>>) =>
               /\ \E k \in DOMAIN rvars :
                      rvars[k] = loc[t].tag /\ k \notin DOMAIN rvars'
               /\ \A k \in DOMAIN rvars' : rvars'[k] # loc[t].tag
        /\ (pc[t] = "get" /\ pc'[t] # "get") => loc[t].target # <<>>

\* C29: a response cell that holds a packet keeps that packet for the rest
\* of its caller's request; the step that publishes into a cell has removed
\* it from the pending map; RVar.get() returns only from a cell that holds a
\* packet.
C29_PublishedOnce == [][C29_Step]_vars

\* A cell has been published and a later response, with an rq_id that has
\* no cell any more, ended the reader with UnexpectedPacket.
C29_Witness ==
    /\ rexc = "UnexpectedPacket"
    /\ \E t \in Threads : loc[t].target # <<>> /\ loc[t].target[1].rq_id \notin DOMAIN rvars

\* The reader thread is inside its loop; it has left it.
InLoop == rpc \in {"loop", "select", "recv", "fanout"}
Left == rpc \in {"finally", "closing", "finally2", "done"}

C30_Step ==
    /\ (InLoop /\ ~InLoop') => rpc' = "finally"
    /\ (rpc \in {"finally", "closing"} /\ rpc' \notin {"finally", "closing"})
         => ~is_connected'
    /\ Left =>
         /\ Left'
         /\ rvars' # rvars => DOMAIN rvars \subseteq DOMAIN rvars'
         /\ \A t \in Threads : loc[t].target = <<>> => loc'[t].target = <<>>
    /\ (thread = "alive" /\ thread' = "dead") =>
         (r_terminator' = "closed" /\ w_terminator' = "closed")

\* C30: the reader thread leaves its loop only into its finally clause,
\* whatever ended the loop; there it closes the connection and then both ends
\* of the terminator pair before the thread ends; after the loop it publishes
\* into no cell and removes none, and it never enters the loop again.
C30_ReaderExit == [][C30_Step]_vars

\* C31: the subscriber map of the router has a key for a token exactly when
\* at least one monitor is subscribed under it: no key has an empty list.
C31_KeysOfSubscribers ==
    \A token \in DOMAIN monitors : monitors[token] # <<>>

\* C32: an unwatch whose UNWATCH was acknowledged, by a monitor that is not
\* (or no longer) subscribed under the token, unsubscribes without an error
\* and leaves the subscriber map as it was.
C32_Step ==
    \A t \in Threads :
        (/\ pc[t] = "get" /\ pc'[t] = "idle"
         /\ call[t].api = "unwatch"
         /\ ack(Interpret(t, Answer(t))).kind = "return"
         /\ ~Contains(Touch(monitors, call[t].token)[call[t].token], call[t].m))
            => (ret'[t].kind = "return" /\ monitors' = monitors)

C32_DoubleUnsubscribe == [][C32_Step]_vars

\* The monitors subscribed under a token.
Subscribers(token) == Touch(monitors, token)[token]

\* C33: when the reader decodes a WATCH_EVENT whose token has no subscribed
\* monitor, it goes back to its loop alive, and no monitor queue, pending
\* cell or entry of the subscriber map changes.
C33_Step ==
    /\ (rpc = "recv" /\ rpc' = "fanout" /\ Subscribers(rev'.token) = <<>>)
          => /\ thread' = "alive"
             /\ events' = events /\ rvars' = rvars /\ monitors' = monitors
    /\ (/\ rpc = "fanout" /\ Subscribers(rev.token) = <<>>
        /\ (rpc' # rpc \/ ridx' # ridx))
          => /\ rpc' = "loop" /\ thread' = "alive"
             /\ events' = events /\ rvars' = rvars /\ monitors' = monitors

C33_UnknownToken == [][C33_Step]_vars

\* How often x is in the list, and whether it is at position idx or later.
Times(lst, x) == Cardinality({i \in 1..Len(lst) : lst[i] = x})
Ahead(lst, idx, x) == \E i \in idx..Len(lst) : lst[i] = x

\* The request of thread t has been acknowledged with OK.
Acked(t) ==
    /\ pc[t] = "get" /\ pc'[t] = "idle"
    /\ ack(Interpret(t, Answer(t))).kind = "return"

\* C34, the order of the steps: a monitor is subscribed when its watch() has
\* not sent anything yet; a record is added when the WATCH is acknowledged,
\* with the monitor subscribed; a monitor is unsubscribed and its record
\* removed when the UNWATCH is acknowledged.
C34_Step ==
    \A m \in Monitors, token \in Tokens :
        LET old == Subscribers(token)
            new == Touch(monitors', token)[token]
        IN  /\ Times(new, m) > Times(old, m) =>
                 \E t \in Threads :
                     /\ pc[t] = "idle" /\ pc'[t] = "rq_load1"
                     /\ call'[t].api = "watch"
                     /\ call'[t].m = m /\ call'[t].token = token
                     /\ loc'[t].sent = NoPacket
                     /\ new = Append(old, m)
                     /\ unwatch_queue' = unwatch_queue
            /\ (\E rec \in unwatch_queue'[m] \ unwatch_queue[m] :
                    rec[2] = token) =>
                 \E t \in Threads :
                     /\ Acked(t) /\ call[t].api = "watch"
                     /\ call[t].m = m /\ call[t].token = token
                     /\ Contains(old, m) /\ new = old
            /\ (\/ Times(new, m) < Times(old, m)
                \/ \E rec \in unwatch_queue[m] \ unwatch_queue'[m] :
                       rec[2] = token) =>
                 \E t \in Threads :
                     /\ Acked(t) /\ call[t].api = "unwatch"
                     /\ call[t].m = m /\ call[t].token = token
                     /\ new = Remove(old, m)
                     /\ unwatch_queue'[m] =
                          unwatch_queue[m] \ {<<call[t].wpath, token>>}

\* C34, the consequence: every event the daemon has sent for the watch of
\* monitor 2, which is never removed, is still to be read, or is being
\* fanned out with monitor 2 still to come, or is on the queue of monitor 2.
C34_Delivered ==
    \A k \in 1..nevents :
        LET e == Event(OrderPaths[k], Tok1)
        IN  \/ \E i \in 1..Len(inbox) :
                 inbox[i].pkt = Packet(OpWATCH_EVENT,
                                       e.path \o <<NUL>> \o Tok1 \o <<NUL>>,
                                       0, 0)
            \/ rpc = "fanout" /\ rev = e /\ Ahead(monitors[Tok1], ridx, 2)
            \/ Contains(events[2], e)

\* C34: watch() subscribes, sends WATCH and records after the
\* acknowledgement, unwatch() sends UNWATCH, unsubscribes and removes the
\* record; every event the daemon sends between processing the WATCH and the
\* UNWATCH of a monitor is put on the queue of the monitor.
C34_WatchWindow == [][C34_Step]_vars /\ []C34_Delivered

\* How often the fan-out of the reader will still put its event on the queue
\* of x when the list of the token is lst.
Pending(lst, x) == Cardinality({i \in ridx..Len(lst) : lst[i] = x})

\* C36: a step that subscribes or unsubscribes a monitor under the token of
\* the event the reader is fanning out does not change how often a different
\* monitor, listed as often as before, will still be given the event.
C36_Step ==
    (rpc = "fanout" /\ rpc' = "fanout" /\ ridx' = ridx
     /\ Touch(monitors', rev.token)[rev.token] # Subscribers(rev.token)) =>
        \A m \in Monitors :
            LET old == Subscribers(rev.token)
                new == Touch(monitors', rev.token)[rev.token]
            IN  Times(new, m) = Times(old, m) =>
                    Pending(new, m) = Pending(old, m)

C36_FanoutUndisturbed == [][C36_Step]_vars

\* The records of monitor m with the token.
Records(m, token) == {rec \in unwatch_queue[m] : rec[2] = token}

\* C35: when no call is in progress, and every watch and unwatch so far has
\* succeeded, a monitor is listed under a token as many times as it has
\* records with the token.
C35_ListedAsRecorded ==
    (\A t \in Threads : pc[t] = "idle") =>
        \A m \in Monitors, token \in Tokens :
            Times(Subscribers(token), m) = Cardinality(Records(m, token))

\* C37: when the WATCH of a watch() fails, in the daemon or on the way to
\* it, watch() raises, no record is added and the entry that the call has
\* appended to the subscribers of the token is gone again; when the UNWATCH
\* of an unwatch() fails, the call raises and leaves the subscribers and the
\* records as they are.
C37_Step ==
    \A t \in Threads :
        (/\ pc[t] # "idle" /\ pc'[t] = "idle"
         /\ call[t].api \in {"watch", "unwatch"}
         /\ pc[t] = "get" => ack(Interpret(t, Answer(t))).kind = "raise") =>
            LET old == Subscribers(call[t].token)
                new == Touch(monitors', call[t].token)[call[t].token]
            IN  /\ ret'[t].kind = "raise"
                /\ unwatch_queue' = unwatch_queue
                /\ IF call[t].api = "watch"
                   THEN Times(new, call[t].m) = Times(old, call[t].m) - 1
                   ELSE new = old

C37_FailedRequest == [][C37_Step]_vars

\* C38: when writing the packet fails inside Router.send, the exception
\* reaches the caller and the pending map holds no cell for the rq_id of the
\* packet.
C38_Step ==
    \A t \in Threads :
        (pc[t] \in {"write_header", "write_payload"} /\ pc'[t] = "idle") =>
            /\ ret'[t].kind = "raise"
            /\ loc[t].sent.rq_id \notin DOMAIN rvars'

C38_NoCellOfFailedSend == [][C38_Step]_vars

\* C39: a rollback() ends with tx_id set to 0 and without an exception when
\* the daemon's answer is the acknowledgement of its TRANSACTION_END; when
\* the answer is anything else, or the packet could not be written, it ends
\* with an exception and every tx_id is what it was.
C39_Step ==
    \A t \in Threads :
        (pc[t] # "idle" /\ pc'[t] = "idle" /\ call[t].api = "rollback") =>
            IF pc[t] = "get" /\ Answer(t) = AckReply(loc[t].sent)
            THEN /\ ret'[t].kind = "return"
                 /\ tx_id' = [tx_id EXCEPT ![call[t].c] = 0]
            ELSE /\ ret'[t].kind = "raise"
                 /\ tx_id' = tx_id

C39_FailedRollback == [][C39_Step]_vars

\* A rollback inside a transaction was answered with an error, and the
\* client is still inside the transaction.
C39_Witness ==
    /\ pc[1] = "idle" /\ ret[1].api = "rollback" /\ ret[1].kind = "raise"
    /\ ret[1].exc = error(EINVAL)
    /\ loc[1].sent.tx_id # 0 /\ tx_id[ret[1].c] = loc[1].sent.tx_id

\* C40: the tx_id of a client changes only in a transaction(), commit() or
\* rollback() of that client, or when the client is made as a copy, and then
\* it is 0; every WATCH and UNWATCH packet written carries tx_id 0.
C40_Step ==
    /\ \A c \in AllClients :
         tx_id'[c] # tx_id[c] =>
            \E t \in Threads :
                \/ /\ pc[t] # "idle" /\ call[t].c = c
                   /\ call[t].api \in {"transaction", "commit", "rollback"}
                \/ /\ ncalls'[t] # ncalls[t] /\ call'[t].c = c
                   /\ call'[t].api = "copy"
    /\ \A t \in Threads :
         (ncalls'[t] # ncalls[t] /\ call'[t].api = "copy") =>
            tx_id' = [tx_id EXCEPT ![call'[t].c] = 0]
    /\ \A i \in 1..Len(wire') :
         wire'[i].pkt.op \in {OpWATCH, OpUNWATCH} => wire'[i].pkt.tx_id = 0

C40_IndependentTxIds == [][C40_Step]_vars

\* Client 2 has just been made as a copy of client 1, which is inside a
\* transaction, and has tx_id 0.
C40_Witness ==
    /\ pc[1] = "idle" /\ ret[1].api = "copy" /\ ret[1].c = 2
    /\ tx_id[1] # 0 /\ tx_id[2] = 0
====
